---- MODULE Spec2Model ----
(***************************************************************************)
(* Model of the event-to-volume pipeline of somnia-globe:                  *)
(*   - lib/wallet-storage.ts : the JSON snapshot store, its in-process     *)
(*     gate (fileLock / lockWaiters), its advisory lock file and its       *)
(*     temp-file + rename persistence;                                     *)
(*   - lib/push-notifications.ts : the per-subscriber threshold gate.      *)
(* Every await of the source is a scheduling point: the code between two   *)
(* awaits of one task runs atomically inside its process, a file-system    *)
(* call is one atomic step against the shared files.                       *)
(***************************************************************************)
EXTENDS Integers, Sequences, FiniteSets, TLC

(***************************************************************************)
(* Bounds of the model.                                                    *)
(***************************************************************************)
NumTasks == 3
MaxTicks == 2
MaxCrashes == 1
NumPasses == 2
MaxOverlap == 2
NumSyncRuns == 2
NumPrefCalls == 2

(***************************************************************************)
(* Program constants.                                                      *)
(***************************************************************************)
\* wallet-storage.ts:71  "return age > 30000"
StaleLockMs == 30000
\* The window within which ranking recomputations are to be coalesced.
DebounceMs == 5000
\* wallet-storage.ts:247 "24 * 60 * 60 * 1000"
RetentionMs == 24 * 60 * 60 * 1000
HourMs == 60 * 60 * 1000
DayMs == 24 * HourMs

Tasks == 1..NumTasks
Passes == 1..NumPasses
AllProcs == {1, 2}
ProjectIds == {"p1", "p2"}

\* Wallet addresses are strings; a string is modelled as the sequence of its
\* character codes: "xA" = <<120, 65>>, "xa" = <<120, 97>>, "xb" = <<120, 98>>.
Addresses == {<<120, 65>>, <<120, 97>>, <<120, 98>>}

EmptyMap == [x \in {} |-> 0]

\* A file of the data directory: absent (ENOENT), opened for writing and not yet
\* written to the end (partial), or complete; w is the task whose writeFile has
\* the file open.
AbsentFile == [state |-> "absent", json |-> EmptyMap, w |-> 0]
PartialFile(t) == [state |-> "partial", json |-> EmptyMap, w |-> t]
OkFile(d) == [state |-> "ok", json |-> d, w |-> 0]

\* A canonical file that fs.readFile cannot read or JSON.parse cannot parse,
\* written by no call of the program.
CorruptFile == [state |-> "partial", json |-> EmptyMap, w |-> 0]

NoLockFile == [exists |-> FALSE, pid |-> 0, mtime |-> 0]
Pending == [status |-> "pending"]
Threw == [status |-> "error"]
Returned(v) == [status |-> "ok", value |-> v]
NoOp == [kind |-> "none"]

VARIABLES
    cfg,          \* the scenario: the processes sharing the data directory,
                  \* how many store calls are kept in flight at once, and
                  \* the project ids and wallet addresses of the events
    now,          \* Date.now(), in ms
    ticks,        \* number of clock steps taken
    crashes,      \* number of process crashes so far
    lockFile,     \* LOCK_FILE: [exists, pid, mtime]
    dataFile,     \* DATA_FILE: absent, partial or a complete TrackingData
    tmpFile,      \* DATA_FILE + '.tmp', likewise
    fileLock,     \* per process: the module variable fileLock
    lockWaiters,  \* per process: the module variable lockWaiters (task ids)
    pc,           \* per task: the await it is suspended at
    proc,         \* per task: the process that runs it (0 before the call)
    op,           \* per task: the store operation called and its arguments
    loaded,       \* per task: the snapshot loadData returned
    out,          \* per task: the data object after the operation changed it
    at,           \* per task: the time the operation body read the clock
    entered,      \* per task: the time its acquireLock returned
    result,       \* per task: the value the call returned
    hist,         \* task ids in the order their operation bodies returned
    written,      \* snapshots some saveData wrote completely to the temp file
    user_notification_preferences,
                  \* the remote table: rows [user_id, project_id,
                  \* percentage_threshold, last_notified_volume, enabled]
    push_subscriptions,
                  \* the remote table: rows [endpoint, user_id]
    pass,         \* per call of sendPushToProjectSubscribers: its arguments,
                  \* its locals and the await it is suspended at
    projectsTable,
                  \* the remote projects table: per project id, whether the
                  \* project has event signatures to subscribe to
    subscribedProjectIds,
                  \* volume-tracker.ts: the module variable of that name
    activeSubscriptions,
                  \* somnia-streams.ts: the keys of the module's map
    streams,      \* per project: the number of subscriptions that
                  \* sdk.streams.subscribe has set up for it and that have
                  \* not been unsubscribed
    run,          \* per run of initializeVolumeTracking (0) or
                  \* checkForNewProjects (1..): the await it is suspended
                  \* at, the projects still to go through, the current one
    handler,      \* per call of handleProjectEvent: its event, the await it
                  \* is suspended at and the calls it has made
    sync,         \* per call of syncToSupabase or runCleanupAndUpdate: which
                  \* of the two, the await it is suspended at, its store call
    recalcs,      \* the calls of recalculateRankings so far: caller and time
    prefCall      \* per call of setUserPreference or deleteUserPreference:
                  \* its arguments, the await it is suspended at, the row
                  \* its select found and the value it returned

storeVars == <<now, ticks, crashes, lockFile, dataFile, tmpFile, fileLock,
               lockWaiters, pc, proc, op, loaded, out, at, entered, result,
               hist, written>>
gateVars == <<user_notification_preferences, push_subscriptions, pass>>
trackerVars == <<projectsTable, subscribedProjectIds, activeSubscriptions,
                 streams, run, handler>>
serverVars == <<sync, recalcs>>
apiVars == <<prefCall>>
vars == <<cfg, storeVars, gateVars, trackerVars, serverVars, apiVars>>

(***************************************************************************)
(* Pure parts of wallet-storage.ts.                                        *)
(***************************************************************************)

\* Date#toISOString keeps the millisecond: the calendar form is modelled as the
\* day number and the millisecond within that day.
toISOString(ms) == [day |-> ms \div DayMs, msOfDay |-> ms % DayMs]

\* new Date(iso).getTime()
getTime(iso) == iso.day * DayMs + iso.msOfDay

toLowerChar(c) == IF c \in 65..90 THEN c + 32 ELSE c

\* A normalisation that keeps the case of the address.
toLowerCaseKeepsCase(s) == s

\* String#toLowerCase
toLowerCase(s) == [i \in DOMAIN s |-> toLowerChar(s[i])]

\* A staleness test that never finds a lock file stale.
isLockStaleNever(file, nowMs) == FALSE

\* isLockStale: age > 30000, false when the lock file does not exist
isLockStale(file, nowMs) ==
    IF file.exists THEN nowMs - file.mtime > StaleLockMs ELSE FALSE

\* getProjectData: create the project entry when it is missing
getProjectData(data, projectId, nowMs) ==
    IF projectId \in DOMAIN data
    THEN data
    ELSE (projectId :> [wallets |-> EmptyMap,
                        total_transactions |-> 0,
                        last_interaction_at |-> toISOString(nowMs)]) @@ data

\* A membership test that reports every interaction as a new wallet.
isNewWalletAlways(wallets, normalizedAddress) == TRUE

\* const isNewWallet = !project.wallets[normalizedAddress]
isNewWallet(wallets, normalizedAddress) == normalizedAddress \notin DOMAIN wallets

\* project.total_transactions += 1
nextTotal(total) == total + 1

\* The body of recordWalletInteraction between loadData and saveData.
recordBody(data, projectId, walletAddress, nowMs) ==
    LET d1 == getProjectData(data, projectId, nowMs)
        project == d1[projectId]
        normalizedAddress == toLowerCase(walletAddress)
        nowIso == toISOString(nowMs)
        isNew == isNewWallet(project.wallets, normalizedAddress)
        wallets2 == (normalizedAddress :> nowIso) @@ project.wallets
        project2 == [wallets |-> wallets2,
                     total_transactions |-> nextTotal(project.total_transactions),
                     last_interaction_at |-> nowIso]
    IN  [data |-> (projectId :> project2) @@ d1,
         save |-> TRUE,
         value |-> [isNewWallet |-> isNew,
                    uniqueWallets |-> Cardinality(DOMAIN wallets2),
                    totalTransactions |-> project2.total_transactions]]

\* An expiry test that also removes the entry exactly at the cutoff.
isExpiredAtCutoff(iso, cutoff) == getTime(iso) <= cutoff

\* if (timestamp < cutoff) delete wallets[wallet]
isExpired(iso, cutoff) == getTime(iso) < cutoff

expiredWallets(project, cutoff) ==
    {w \in DOMAIN project.wallets : isExpired(project.wallets[w], cutoff)}

\* An eviction that recounts the transactions from the wallets it keeps.
cleanProjectRecounts(project, cutoff) ==
    [wallets |-> [w \in DOMAIN project.wallets \ expiredWallets(project, cutoff)
                     |-> project.wallets[w]],
     total_transactions |->
         Cardinality(DOMAIN project.wallets \ expiredWallets(project, cutoff)),
     last_interaction_at |-> project.last_interaction_at]

cleanProject(project, cutoff) ==
    [wallets |-> [w \in DOMAIN project.wallets \ expiredWallets(project, cutoff)
                     |-> project.wallets[w]],
     total_transactions |-> project.total_transactions,
     last_interaction_at |-> project.last_interaction_at]

RECURSIVE sumRemoved(_, _, _)
sumRemoved(data, projects, cutoff) ==
    IF projects = {}
    THEN 0
    ELSE LET p == CHOOSE q \in projects : TRUE
         IN  Cardinality(expiredWallets(data[p], cutoff))
               + sumRemoved(data, projects \ {p}, cutoff)

\* A cleanup that saves whether or not it removed anything.
cleanupSavesAlways(totalRemoved) == TRUE

\* if (totalRemoved > 0) await saveData(data)
cleanupSaves(totalRemoved) == totalRemoved > 0

\* A cleanup that reports every project, cleaned or not.
cleanupBodyListsAll(data, nowMs) ==
    LET cutoff == nowMs - RetentionMs
        d2 == [p \in DOMAIN data |-> cleanProject(data[p], cutoff)]
        totalRemoved == sumRemoved(data, DOMAIN data, cutoff)
    IN  [data |-> d2,
         save |-> cleanupSaves(totalRemoved),
         value |-> [updates |->
                       {[projectId |-> p,
                         uniqueWallets |-> Cardinality(DOMAIN d2[p].wallets),
                         totalTransactions |-> d2[p].total_transactions,
                         lastInteractionAt |-> d2[p].last_interaction_at]
                          : p \in DOMAIN data},
                    totalRemoved |-> totalRemoved,
                    projectsCleaned |-> Cardinality(DOMAIN data)]]

\* The body of cleanupOldWallets between loadData and saveData.
cleanupBody(data, nowMs) ==
    LET cutoff == nowMs - RetentionMs
        cleaned == {p \in DOMAIN data : expiredWallets(data[p], cutoff) # {}}
        d2 == [p \in DOMAIN data |-> cleanProject(data[p], cutoff)]
        totalRemoved == sumRemoved(data, DOMAIN data, cutoff)
    IN  [data |-> d2,
         save |-> cleanupSaves(totalRemoved),
         value |-> [updates |->
                       {[projectId |-> p,
                         uniqueWallets |-> Cardinality(DOMAIN d2[p].wallets),
                         totalTransactions |-> d2[p].total_transactions,
                         lastInteractionAt |-> d2[p].last_interaction_at]
                          : p \in cleaned},
                    totalRemoved |-> totalRemoved,
                    projectsCleaned |-> Cardinality(cleaned)]]

\* The body of getProjectStats.
statsBody(data, projectId) ==
    [data |-> data,
     save |-> FALSE,
     value |-> IF projectId \notin DOMAIN data
               THEN [found |-> FALSE]
               ELSE [found |-> TRUE,
                     uniqueWallets |-> Cardinality(DOMAIN data[projectId].wallets),
                     totalTransactions |-> data[projectId].total_transactions,
                     lastInteractionAt |-> data[projectId].last_interaction_at]]

body(o, data, nowMs) ==
    CASE o.kind = "record" -> recordBody(data, o.projectId, o.walletAddress, nowMs)
      [] o.kind = "cleanup" -> cleanupBody(data, nowMs)
      [] OTHER -> statsBody(data, o.projectId)

(***************************************************************************)
(* The in-process gate and the lock file.                                  *)
(***************************************************************************)

InFlight(t) == pc[t] \notin {"idle", "done", "crashed"}

\* A release that frees the gate and drops the waiter without resolving it.
releaseLockNoWake(p) ==
    [fileLock |-> [fileLock EXCEPT ![p] = FALSE],
     lockWaiters |-> [lockWaiters EXCEPT
                        ![p] = IF Len(@) > 0 THEN Tail(@) ELSE @],
     next |-> {}]

\* releaseLock, in process p: free the gate, or hand it to the first waiter
\* (fileLock stays true and the waiter's promise is resolved).
releaseLock(p) ==
    IF Len(lockWaiters[p]) > 0
    THEN [fileLock |-> [fileLock EXCEPT ![p] = TRUE],
          lockWaiters |-> [lockWaiters EXCEPT ![p] = Tail(@)],
          next |-> {Head(lockWaiters[p])}]
    ELSE [fileLock |-> [fileLock EXCEPT ![p] = FALSE],
          lockWaiters |-> lockWaiters,
          next |-> {}]

\* Task t runs releaseLock and goes on to `to`; the woken waiter resumes after
\* its `await waitForLock()`.
ReleaseAnd(t, to) ==
    LET r == releaseLock(proc[t])
    IN  /\ fileLock' = r.fileLock
        /\ lockWaiters' = r.lockWaiters
        /\ pc' = [x \in Tasks |-> IF x = t THEN to
                                  ELSE IF x \in r.next THEN "checkLockFile"
                                  ELSE pc[x]]

\* A call of a store operation starts: withLock -> acquireLock ->
\* await ensureDataDir().  Tasks are interchangeable and are used in order.
Call(t, p, o) ==
    /\ pc[t] = "idle"
    /\ \A x \in Tasks : x < t => pc[x] # "idle"
    /\ Cardinality({x \in Tasks : InFlight(x)}) < cfg.maxInFlight
    /\ p \in cfg.procs
    /\ pc' = [pc EXCEPT ![t] = "ensureDir"]
    /\ proc' = [proc EXCEPT ![t] = p]
    /\ op' = [op EXCEPT ![t] = o]
    /\ UNCHANGED <<cfg, now, ticks, crashes, lockFile, dataFile, tmpFile,
                   fileLock, lockWaiters, loaded, out, at, entered, result, hist, written>>

CallRecord(t) ==
    \E p \in AllProcs, projectId \in cfg.projectIds,
       walletAddress \in cfg.addresses :
        Call(t, p, [kind |-> "record", projectId |-> projectId,
                    walletAddress |-> walletAddress])

CallCleanup(t) ==
    \E p \in AllProcs : Call(t, p, [kind |-> "cleanup"])

CallStats(t) ==
    \E p \in AllProcs, projectId \in cfg.projectIds :
        Call(t, p, [kind |-> "stats", projectId |-> projectId])

\* waitForLock: take the gate when it is free, else queue a resolver.
waitForLock(t) ==
    /\ pc[t] = "ensureDir"
    /\ IF ~fileLock[proc[t]]
       THEN /\ fileLock' = [fileLock EXCEPT ![proc[t]] = TRUE]
            /\ lockWaiters' = lockWaiters
            /\ pc' = [pc EXCEPT ![t] = "checkLockFile"]
       ELSE /\ fileLock' = fileLock
            /\ lockWaiters' = [lockWaiters EXCEPT ![proc[t]] = Append(@, t)]
            /\ pc' = [pc EXCEPT ![t] = "waiting"]
    /\ UNCHANGED <<cfg, now, ticks, crashes, lockFile, dataFile, tmpFile,
                   proc, op, loaded, out, at, entered, result, hist, written>>

\* acquireLock: if (existsSync(LOCK_FILE)) ... else fs.writeFile(..., 'wx')
CheckLockFile(t) ==
    /\ pc[t] = "checkLockFile"
    /\ pc' = [pc EXCEPT ![t] = IF lockFile.exists THEN "stat" ELSE "create"]
    /\ UNCHANGED <<cfg, now, ticks, crashes, lockFile, dataFile, tmpFile,
                   fileLock, lockWaiters, proc, op, loaded, out, at, entered, result,
                   hist, written>>

\* acquireLock: await isLockStale(); a lock that is not stale is backed off
\* from: releaseLock(), sleep 100 ms, acquireLock() again.
StatLock(t) ==
    /\ pc[t] = "stat"
    /\ IF isLockStale(lockFile, now)
       THEN /\ pc' = [pc EXCEPT ![t] = "unlinkStale"]
            /\ UNCHANGED <<fileLock, lockWaiters>>
       ELSE ReleaseAnd(t, "ensureDir")
    /\ UNCHANGED <<cfg, now, ticks, crashes, lockFile, dataFile, tmpFile,
                   proc, op, loaded, out, at, entered, result, hist, written>>

\* acquireLock: await fs.unlink(LOCK_FILE), errors ignored
UnlinkStale(t) ==
    /\ pc[t] = "unlinkStale"
    /\ lockFile' = NoLockFile
    /\ pc' = [pc EXCEPT ![t] = "create"]
    /\ UNCHANGED <<cfg, now, ticks, crashes, dataFile, tmpFile, fileLock,
                   lockWaiters, proc, op, loaded, out, at, entered, result, hist, written>>

\* acquireLock: fs.writeFile(LOCK_FILE, pid, { flag: 'wx' }); EEXIST backs off
CreateLockFile(t) ==
    /\ pc[t] = "create"
    /\ IF ~lockFile.exists
       THEN /\ lockFile' = [exists |-> TRUE, pid |-> proc[t], mtime |-> now]
            /\ pc' = [pc EXCEPT ![t] = "load"]
            /\ entered' = [entered EXCEPT ![t] = now]
            /\ UNCHANGED <<fileLock, lockWaiters>>
       ELSE /\ lockFile' = lockFile
            /\ entered' = entered
            /\ ReleaseAnd(t, "ensureDir")
    /\ UNCHANGED <<cfg, now, ticks, crashes, dataFile, tmpFile, proc, op,
                   loaded, out, at, result, hist, written>>

\* acquireLock: fs.writeFile(LOCK_FILE, ...) rejects with an error whose code
\* is not EEXIST (EACCES, ENOSPC, EMFILE ...): `throw error`.  withLock calls
\* acquireLock before its try block, so the call rejects and neither
\* releaseLock nor releaseFileLock runs.
CreateLockFileFails(t) ==
    /\ pc[t] = "create"
    /\ ~lockFile.exists
    /\ result' = [result EXCEPT ![t] = Threw]
    /\ pc' = [pc EXCEPT ![t] = "done"]
    /\ UNCHANGED <<cfg, now, ticks, crashes, lockFile, dataFile, tmpFile,
                   fileLock, lockWaiters, proc, op, loaded, out, at, entered,
                   hist, written>>

(***************************************************************************)
(* The operation body: loadData, the change, saveData.                     *)
(***************************************************************************)

\* A loadData that answers {} for every failure of the read or the parse.
LoadOrEmpty(t) ==
    /\ pc[t] = "load"
    /\ LET data == IF dataFile.state = "ok" THEN dataFile.json ELSE EmptyMap
           b == body(op[t], data, now)
       IN  /\ loaded' = [loaded EXCEPT ![t] = data]
           /\ out' = [out EXCEPT ![t] = b.data]
           /\ at' = [at EXCEPT ![t] = now]
           /\ IF b.save
              THEN /\ pc' = [pc EXCEPT ![t] = "openTmp"]
                   /\ UNCHANGED <<result, hist>>
              ELSE /\ pc' = [pc EXCEPT ![t] = "release"]
                   /\ result' = [result EXCEPT ![t] = Returned(b.value)]
                   /\ hist' = Append(hist, t)
    /\ UNCHANGED <<cfg, now, ticks, crashes, lockFile, dataFile, tmpFile,
                   fileLock, lockWaiters, proc, op, entered, written>>

\* loadData (fs.readFile + JSON.parse; ENOENT gives {}, a file that does not
\* parse throws) and the synchronous body up to the first await of saveData.
Load(t) ==
    /\ pc[t] = "load"
    /\ IF dataFile.state = "partial"
       THEN /\ result' = [result EXCEPT ![t] = Threw]
            /\ pc' = [pc EXCEPT ![t] = "release"]
            /\ UNCHANGED <<loaded, out, at, hist>>
       ELSE LET data == IF dataFile.state = "absent" THEN EmptyMap
                        ELSE dataFile.json
                b == body(op[t], data, now)
            IN  /\ loaded' = [loaded EXCEPT ![t] = data]
                /\ out' = [out EXCEPT ![t] = b.data]
                /\ at' = [at EXCEPT ![t] = now]
                /\ IF b.save
                   THEN /\ pc' = [pc EXCEPT ![t] = "openTmp"]
                        /\ UNCHANGED <<result, hist>>
                   ELSE /\ pc' = [pc EXCEPT ![t] = "release"]
                        /\ result' = [result EXCEPT ![t] = Returned(b.value)]
                        /\ hist' = Append(hist, t)
    /\ UNCHANGED <<cfg, now, ticks, crashes, lockFile, dataFile, tmpFile,
                   fileLock, lockWaiters, proc, op, entered, written>>

\* A save that opens the canonical file itself for writing.
OpenTmpInPlace(t) ==
    /\ pc[t] = "openTmp"
    /\ dataFile' = PartialFile(t)
    /\ pc' = [pc EXCEPT ![t] = "writeTmp"]
    /\ UNCHANGED <<cfg, now, ticks, crashes, lockFile, tmpFile, fileLock,
                   lockWaiters, proc, op, loaded, out, at, entered, result, hist, written>>

\* saveData: fs.writeFile(tempFile, json) opens and truncates the temp file ...
OpenTmp(t) ==
    /\ pc[t] = "openTmp"
    /\ tmpFile' = PartialFile(t)
    /\ pc' = [pc EXCEPT ![t] = "writeTmp"]
    /\ UNCHANGED <<cfg, now, ticks, crashes, lockFile, dataFile, fileLock,
                   lockWaiters, proc, op, loaded, out, at, entered, result, hist, written>>

\* ... and writes the JSON into the file it opened (which a rename by another
\* writer may have moved to the canonical path meanwhile).
WriteTmp(t) ==
    /\ pc[t] = "writeTmp"
    /\ IF tmpFile.w = t
       THEN /\ tmpFile' = OkFile(out[t])
            /\ dataFile' = dataFile
       ELSE IF dataFile.w = t
       THEN /\ dataFile' = OkFile(out[t])
            /\ tmpFile' = tmpFile
       ELSE UNCHANGED <<dataFile, tmpFile>>
    /\ written' = written \cup {out[t]}
    /\ pc' = [pc EXCEPT ![t] = "rename"]
    /\ UNCHANGED <<cfg, now, ticks, crashes, lockFile, fileLock, lockWaiters,
                   proc, op, loaded, out, at, entered, result, hist>>

\* saveData: fs.rename(tempFile, DATA_FILE) (ENOENT throws), then the body
\* returns its value.
Rename(t) ==
    /\ pc[t] = "rename"
    /\ IF tmpFile.state = "absent"
       THEN /\ result' = [result EXCEPT ![t] = Threw]
            /\ UNCHANGED <<dataFile, tmpFile, hist>>
       ELSE /\ dataFile' = tmpFile
            /\ tmpFile' = AbsentFile
            /\ result' = [result EXCEPT ![t] =
                             Returned(body(op[t], loaded[t], at[t]).value)]
            /\ hist' = Append(hist, t)
    /\ pc' = [pc EXCEPT ![t] = "release"]
    /\ UNCHANGED <<cfg, now, ticks, crashes, lockFile, fileLock, lockWaiters,
                   proc, op, loaded, out, at, entered, written>>

\* releaseFileLock: if (existsSync(LOCK_FILE)) await fs.unlink(LOCK_FILE);
\* releaseLock()
ReleaseCheck(t) ==
    /\ pc[t] = "release"
    /\ IF lockFile.exists
       THEN /\ pc' = [pc EXCEPT ![t] = "unlinkLock"]
            /\ UNCHANGED <<fileLock, lockWaiters>>
       ELSE ReleaseAnd(t, "done")
    /\ UNCHANGED <<cfg, now, ticks, crashes, lockFile, dataFile, tmpFile,
                   proc, op, loaded, out, at, entered, result, hist, written>>

UnlinkLock(t) ==
    /\ pc[t] = "unlinkLock"
    /\ lockFile' = NoLockFile
    /\ ReleaseAnd(t, "done")
    /\ UNCHANGED <<cfg, now, ticks, crashes, dataFile, tmpFile, proc, op,
                   loaded, out, at, entered, result, hist, written>>

(***************************************************************************)
(* The environment: the clock and process crashes.                         *)
(***************************************************************************)

Tick(d) ==
    /\ ticks < MaxTicks
    /\ now' = now + d
    /\ ticks' = ticks + 1
    /\ UNCHANGED <<cfg, crashes, lockFile, dataFile, tmpFile, fileLock,
                   lockWaiters, pc, proc, op, loaded, out, at, entered, result, hist,
                   written>>

\* The clock in steps of the lock's staleness threshold.
TickLock == Tick(StaleLockMs)

\* The clock in steps of an hour or a day.
TickHours == \E d \in {HourMs, DayMs} : Tick(d)

\* Process p dies: its tasks stop where they are, its memory is gone, the
\* files stay as they are.  Calls made later run in the restarted process.
Crash(p) ==
    /\ p \in cfg.procs
    /\ crashes < MaxCrashes
    /\ \E t \in Tasks : proc[t] = p /\ InFlight(t)
    /\ crashes' = crashes + 1
    /\ pc' = [t \in Tasks |-> IF proc[t] = p /\ InFlight(t) THEN "crashed"
                              ELSE pc[t]]
    /\ fileLock' = [fileLock EXCEPT ![p] = FALSE]
    /\ lockWaiters' = [lockWaiters EXCEPT ![p] = <<>>]
    /\ UNCHANGED <<cfg, now, ticks, lockFile, dataFile, tmpFile, proc, op,
                   loaded, out, at, entered, result, hist, written>>

(***************************************************************************)
(* The notification gate: push-notifications.ts.                           *)
(*                                                                         *)
(* percentage_threshold is a DECIMAL(5,2) column and is kept in hundredths *)
(* of a percent (1000 is 10.00%); percentageChange is kept as the exact    *)
(* fraction num/den with den > 0.                                          *)
(***************************************************************************)
UserIds == {"u1", "u2"}
Volumes == {0, 5, 100, 107, 110, 111}
Thresholds == {500, 1000, 1500, 15000}
Outcomes == {"ok", "gone", "error"}

IdlePass ==
    [pc |-> "idle", projectId |-> "", currentVolume |-> 0,
     preferences |-> {}, subscriptions |-> {}, todo |-> {}, userId |-> "",
     sending |-> {}, updatePromises |-> {},
     sent |-> 0, failed |-> 0, skipped |-> 0,
     attempted |-> {}, skippedUsers |-> {}, result |-> Pending,
     outcomes |-> {}, updates |-> [u \in UserIds |-> 0],
     fetchFailed |-> FALSE]

PassInFlight(g) == pass[g].pc \notin {"idle", "done"}

Abs(n) == IF n < 0 THEN -n ELSE n

\* lines 188-194: the change against the last notified volume, 100 for a
\* first notification of a positive volume, otherwise 0
percentageChange(currentVolume, lastVolume) ==
    IF lastVolume > 0
    THEN [num |-> (currentVolume - lastVolume) * 100, den |-> lastVolume]
    ELSE IF currentVolume > 0
         THEN [num |-> 100, den |-> 1]
         ELSE [num |-> 0, den |-> 1]

\* A gate that lets a change equal to the threshold pass as too small.
belowOrAtThreshold(change, threshold) ==
    Abs(change.num) * 100 <= threshold * change.den

\* line 197: Math.abs(percentageChange) < threshold
belowThreshold(change, threshold) ==
    Abs(change.num) * 100 < threshold * change.den

\* lines 184-200: the decision to skip a subscriber
skips(lastVolume, currentVolume, threshold) ==
    belowThreshold(percentageChange(currentVolume, lastVolume), threshold)

\* A pass that rethrows the error of a failed fetch.
ThrowFetchError(g, error) ==
    pass' = [pass EXCEPT ![g].pc = "done",
                         ![g].fetchFailed = error,
                         ![g].result = IF error THEN Threw
                                       ELSE Returned([sent |-> 0, failed |-> 0,
                                                      skipped |-> 0])]

\* return { sent: 0, failed: 0, skipped: 0 }
ReturnZeros(g, error) ==
    pass' = [pass EXCEPT ![g].pc = "done",
                         ![g].fetchFailed = error,
                         ![g].result = Returned([sent |-> 0, failed |-> 0,
                                                 skipped |-> 0])]

\* A call sendPushToProjectSubscribers(projectId, currentVolume, payload).
\* The locals of the calls that have returned are gone by now (whether their
\* fetches failed is kept for the record).
CallGate(g) ==
    /\ pass[g].pc = "idle"
    /\ \A h \in Passes : h < g => pass[h].pc # "idle"
    /\ Cardinality({h \in Passes : PassInFlight(h)}) < cfg.maxInFlight
    /\ \E projectId \in cfg.projectIds, currentVolume \in Volumes :
          pass' = [h \in Passes |->
                      IF h = g
                      THEN [IdlePass EXCEPT !.pc = "fetchPreferences",
                                            !.projectId = projectId,
                                            !.currentVolume = currentVolume]
                      ELSE IF pass[h].pc = "done"
                           THEN [IdlePass EXCEPT
                                   !.pc = "done",
                                   !.fetchFailed = pass[h].fetchFailed]
                           ELSE pass[h]]
    /\ UNCHANGED <<cfg, storeVars, user_notification_preferences,
                   push_subscriptions>>

\* lines 127-140: the enabled preferences of the project, or an error
FetchPreferences(g) ==
    /\ pass[g].pc = "fetchPreferences"
    /\ \E prefError \in BOOLEAN :
          LET preferences ==
                  {r \in user_notification_preferences :
                      r.project_id = pass[g].projectId /\ r.enabled}
          IN  IF prefError \/ preferences = {}
              THEN ReturnZeros(g, prefError)
              ELSE pass' = [pass EXCEPT ![g].pc = "fetchSubscriptions",
                                        ![g].preferences = preferences]
    /\ UNCHANGED <<cfg, storeVars, user_notification_preferences,
                   push_subscriptions>>

\* lines 143-175: the endpoints of those users, grouped by user, or an error
FetchSubscriptions(g) ==
    /\ pass[g].pc = "fetchSubscriptions"
    /\ \E subError \in BOOLEAN :
          LET userIds == {r.user_id : r \in pass[g].preferences}
              subscriptions == {sub \in push_subscriptions :
                                   sub.user_id \in userIds}
          IN  IF subError \/ subscriptions = {}
              THEN ReturnZeros(g, subError)
              ELSE pass' = [pass EXCEPT
                              ![g].pc = "loop",
                              ![g].subscriptions = subscriptions,
                              ![g].todo = {sub.user_id : sub \in subscriptions}]
    /\ UNCHANGED <<cfg, storeVars, user_notification_preferences,
                   push_subscriptions>>

\* lines 180-225: the next user of userSubscriptionsMap is skipped, or the
\* sends to all of the user's devices are started
Evaluate(g) ==
    /\ pass[g].pc = "loop"
    /\ \E userId \in pass[g].todo :
          LET preference == CHOOSE r \in pass[g].preferences : r.user_id = userId
              lastVolume == preference.last_notified_volume
              threshold == preference.percentage_threshold
          IN  IF skips(lastVolume, pass[g].currentVolume, threshold)
              THEN pass' = [pass EXCEPT
                              ![g].todo = @ \ {userId},
                              ![g].skipped = @ + 1,
                              ![g].skippedUsers = @ \cup {userId}]
              ELSE pass' = [pass EXCEPT
                              ![g].todo = @ \ {userId},
                              ![g].userId = userId,
                              ![g].sending =
                                  {sub \in pass[g].subscriptions :
                                      sub.user_id = userId},
                              ![g].pc = "sending"]
    /\ UNCHANGED <<cfg, storeVars, user_notification_preferences,
                   push_subscriptions>>

\* A removal that deletes every endpoint of the user whose endpoint expired.
removeSubscriptionsOfUser(endpoint, deleteError) ==
    IF deleteError
    THEN push_subscriptions
    ELSE {sub \in push_subscriptions :
             \A gone \in push_subscriptions :
                 gone.endpoint = endpoint => sub.user_id # gone.user_id}

\* removeExpiredSubscription: delete the row of the endpoint; an error of the
\* delete is logged and the row stays
removeExpiredSubscription(endpoint, deleteError) ==
    IF deleteError
    THEN push_subscriptions
    ELSE {sub \in push_subscriptions : sub.endpoint # endpoint}

\* lines 51-67 and 203-223: one delivery settles.  A 410 removes the endpoint
\* and is swallowed by sendPushNotification, so the caller counts it as sent;
\* any other failure is rethrown and counted as failed.
sendPushNotification(g) ==
    /\ pass[g].pc = "sending"
    /\ \E sub \in pass[g].sending, outcome \in Outcomes, deleteError \in BOOLEAN :
          /\ outcome # "gone" => ~deleteError
          /\ push_subscriptions' =
                IF outcome = "gone"
                THEN removeExpiredSubscription(sub.endpoint, deleteError)
                ELSE push_subscriptions
          /\ pass' = [pass EXCEPT
                        ![g].sending = @ \ {sub},
                        ![g].attempted = @ \cup {sub},
                        ![g].outcomes = @ \cup {[endpoint |-> sub.endpoint,
                                                  user_id |-> sub.user_id,
                                                  outcome |-> outcome,
                                                  deleteError |-> deleteError]},
                        ![g].sent = IF outcome = "error" THEN @ ELSE @ + 1,
                        ![g].failed = IF outcome = "error" THEN @ + 1 ELSE @]
    /\ UNCHANGED <<cfg, storeVars, user_notification_preferences>>

\* An update that is issued only when some delivery of the user succeeded.
PushUpdateIfDelivered(g) ==
    /\ pass[g].pc = "sending"
    /\ pass[g].sending = {}
    /\ pass' = [pass EXCEPT
                  ![g].pc = "loop",
                  ![g].updatePromises =
                      IF \E o \in pass[g].outcomes :
                            o.user_id = pass[g].userId /\ o.outcome = "ok"
                      THEN @ \cup {pass[g].userId}
                      ELSE @]
    /\ UNCHANGED <<cfg, storeVars, user_notification_preferences,
                   push_subscriptions>>

\* lines 225-235: all sends of the user have settled; the update of
\* last_notified_volume is issued and the loop goes on
PushUpdate(g) ==
    /\ pass[g].pc = "sending"
    /\ pass[g].sending = {}
    /\ pass' = [pass EXCEPT ![g].pc = "loop",
                            ![g].updatePromises = @ \cup {pass[g].userId}]
    /\ UNCHANGED <<cfg, storeVars, user_notification_preferences,
                   push_subscriptions>>

\* An update that leaves out .eq('user_id', userId).
UpdateLastNotifiedVolumeOfAll(g) ==
    /\ \E userId \in pass[g].updatePromises :
          /\ user_notification_preferences' =
                {IF r.project_id = pass[g].projectId
                 THEN [r EXCEPT !.last_notified_volume = pass[g].currentVolume]
                 ELSE r : r \in user_notification_preferences}
          /\ pass' = [pass EXCEPT ![g].updatePromises = @ \ {userId},
                                  ![g].updates[userId] = @ + 1]
    /\ UNCHANGED <<cfg, storeVars, push_subscriptions>>

\* lines 229-234: the update reaches the table
UpdateLastNotifiedVolume(g) ==
    /\ \E userId \in pass[g].updatePromises :
          /\ user_notification_preferences' =
                {IF r.user_id = userId /\ r.project_id = pass[g].projectId
                 THEN [r EXCEPT !.last_notified_volume = pass[g].currentVolume]
                 ELSE r : r \in user_notification_preferences}
          /\ pass' = [pass EXCEPT ![g].updatePromises = @ \ {userId},
                                  ![g].updates[userId] = @ + 1]
    /\ UNCHANGED <<cfg, storeVars, push_subscriptions>>

\* lines 239-244: await Promise.allSettled(updatePromises), then return
ReturnStats(g) ==
    /\ pass[g].pc = "loop"
    /\ pass[g].todo = {}
    /\ pass[g].updatePromises = {}
    /\ pass' = [pass EXCEPT
                  ![g].pc = "done",
                  ![g].result = Returned([sent |-> pass[g].sent,
                                          failed |-> pass[g].failed,
                                          skipped |-> pass[g].skipped])]
    /\ UNCHANGED <<cfg, storeVars, user_notification_preferences,
                   push_subscriptions>>

GateStep(g) ==
    \/ FetchPreferences(g)
    \/ FetchSubscriptions(g)
    \/ Evaluate(g)
    \/ sendPushNotification(g)
    \/ PushUpdate(g)
    \/ UpdateLastNotifiedVolume(g)
    \/ ReturnStats(g)

(***************************************************************************)
(* Subscription and discovery: volume-tracker.ts and somnia-streams.ts.    *)
(***************************************************************************)

\* Run 0 is initializeVolumeTracking; runs 1..MaxOverlap are calls of
\* checkForNewProjects made by the 30 s interval, which does not wait for the
\* previous call to finish.
Runs == 0..MaxOverlap
IdleRun == [pc |-> "idle", todo |-> <<>>, cur |-> ""]

\* The orders in which getAllProjects can return the projects (it sorts by
\* unique_wallets, which the model does not fix).
Orders == {s \in [1..Cardinality(ProjectIds) -> ProjectIds] :
              \A i, j \in DOMAIN s : s[i] = s[j] => i = j}

RECURSIVE filter(_, _)
\* projects.filter(p => !subscribedProjectIds.has(p.id))
filter(s, subscribed) ==
    IF s = <<>> THEN <<>>
    ELSE IF Head(s) \in subscribed THEN filter(Tail(s), subscribed)
    ELSE <<Head(s)>> \o filter(Tail(s), subscribed)

\* initializeVolumeTracking is called once, by server/tracker.js.
initializeVolumeTracking ==
    /\ run[0].pc = "idle"
    /\ run' = [run EXCEPT ![0].pc = "fetch"]
    /\ UNCHANGED <<projectsTable, subscribedProjectIds, activeSubscriptions,
                   streams, handler>>

\* await getAllProjects().  At startup the call is outside any try: an error
\* rejects initializeVolumeTracking and tracker.js exits.  In
\* checkForNewProjects the error is caught and logged, and the list is
\* filtered by the subscribed set.
getAllProjects(r) ==
    /\ run[r].pc = "fetch"
    /\ \/ \E order \in Orders :
            run' = [run EXCEPT
                      ![r].pc = "loop",
                      ![r].todo = IF r = 0 THEN order
                                  ELSE filter(order, subscribedProjectIds)]
       \/ run' = [run EXCEPT ![r].pc = IF r = 0 THEN "aborted" ELSE "idle"]
    /\ UNCHANGED <<projectsTable, subscribedProjectIds, activeSubscriptions,
                   streams, handler>>

\* for (const project of ...) await subscribeToProject(project): the loop
\* ends, or subscribeToProject returns at once for a subscribed project, or
\* it calls subscribeToProjectEvents, which awaits initializeSomniaSDK().
\* After the startup loop the discovery interval is set.
subscribeToProject(r) ==
    /\ run[r].pc = "loop"
    /\ IF run[r].todo = <<>>
       THEN run' = [run EXCEPT ![r] = [IdleRun EXCEPT
                       !.pc = IF r = 0 THEN "initialized" ELSE "idle"]]
       ELSE IF Head(run[r].todo) \in subscribedProjectIds
       THEN run' = [run EXCEPT ![r].todo = Tail(@)]
       ELSE run' = [run EXCEPT ![r].pc = "sdk", ![r].cur = Head(run[r].todo)]
    /\ UNCHANGED <<projectsTable, subscribedProjectIds, activeSubscriptions,
                   streams, handler>>

\* A failed subscription that ends the whole run.
subscribeFailedAborts(r) ==
    run' = [run EXCEPT ![r] = [IdleRun EXCEPT
               !.pc = IF r = 0 THEN "aborted" ELSE "idle"]]

\* subscribeToProject's catch: log, and return to the caller's loop.
subscribeFailed(r) ==
    run' = [run EXCEPT ![r].pc = "loop", ![r].todo = Tail(@), ![r].cur = ""]

\* subscribeToProjectEvents after its first await: an existing subscription
\* is returned; a project without event signatures throws (caught by
\* subscribeToProject, which goes on with the next project); otherwise
\* sdk.streams.subscribe is called for every signature and Promise.all is
\* awaited.
subscribeToProjectEvents(r) ==
    /\ run[r].pc = "sdk"
    /\ IF run[r].cur \in activeSubscriptions
       THEN run' = [run EXCEPT ![r].pc = "resolved"]
       ELSE IF ~projectsTable[run[r].cur].hasEvents
       THEN subscribeFailed(r)
       ELSE run' = [run EXCEPT ![r].pc = "subscribing"]
    /\ UNCHANGED <<projectsTable, subscribedProjectIds, activeSubscriptions,
                   streams, handler>>

\* Promise.all settles: fulfilled, the subscriptions that sdk.streams.subscribe
\* set up deliver events from now on, activeSubscriptions.set(key, ...)
\* replaces whatever the key held, and the subscription is returned;
\* rejected, the error is thrown to subscribeToProject.
subscribeSettles(r) ==
    /\ run[r].pc = "subscribing"
    /\ \/ /\ activeSubscriptions' = activeSubscriptions \cup {run[r].cur}
          /\ streams' = [streams EXCEPT ![run[r].cur] = @ + 1]
          /\ run' = [run EXCEPT ![r].pc = "resolved"]
       \/ /\ activeSubscriptions' = activeSubscriptions
          /\ streams' = streams
          /\ subscribeFailed(r)
    /\ UNCHANGED <<projectsTable, subscribedProjectIds, handler>>

\* subscribeToProject after its await: subscribedProjectIds.add(project.id)
addSubscribed(r) ==
    /\ run[r].pc = "resolved"
    /\ subscribedProjectIds' = subscribedProjectIds \cup {run[r].cur}
    /\ run' = [run EXCEPT ![r].pc = "loop", ![r].todo = Tail(@), ![r].cur = ""]
    /\ UNCHANGED <<projectsTable, activeSubscriptions, streams, handler>>

\* setInterval(() => { checkForNewProjects() }, 30000) fires.
checkForNewProjects ==
    /\ run[0].pc = "initialized"
    /\ \E r \in Runs \ {0} :
          /\ run[r].pc = "idle"
          /\ \A q \in Runs \ {0} : q < r => run[q].pc # "idle"
          /\ run' = [run EXCEPT ![r].pc = "fetch"]
    /\ UNCHANGED <<projectsTable, subscribedProjectIds, activeSubscriptions,
                   streams, handler>>

\* Calls of handleProjectEvent: call h uses store call h and gate pass h.
Handlers == Tasks \cap Passes
IdleHandler == [pc |-> "idle", recordCalls |-> 0, gateCalls |-> 0]

\* handleProjectEvent(event) is called by a subscription's onData: it awaits
\* recordWalletInteraction(projectId, walletAddress).
handleProjectEvent(h) ==
    /\ handler[h].pc = "idle"
    /\ CallRecord(h)
    /\ handler' = [handler EXCEPT ![h].pc = "recording",
                                  ![h].recordCalls = @ + 1]
    /\ UNCHANGED <<gateVars, projectsTable, subscribedProjectIds,
                   activeSubscriptions, streams, run>>

\* A handler that calls the gate only for a wallet it has not seen.
callGateIfNew(h) ==
    IF result[h].value.isNewWallet
    THEN /\ pass' = [pass EXCEPT ![h] =
                        [IdlePass EXCEPT
                            !.pc = "fetchPreferences",
                            !.projectId = op[h].projectId,
                            !.currentVolume = result[h].value.uniqueWallets]]
         /\ handler' = [handler EXCEPT ![h].pc = "gating",
                                       ![h].gateCalls = @ + 1]
    ELSE /\ pass' = pass
         /\ handler' = [handler EXCEPT ![h].pc = "done"]

\* sendPushToProjectSubscribers(projectId, uniqueWallets, payload) is called
\* inside the try block.
callGate(h) ==
    /\ pass' = [pass EXCEPT ![h] =
                   [IdlePass EXCEPT
                       !.pc = "fetchPreferences",
                       !.projectId = op[h].projectId,
                       !.currentVolume = result[h].value.uniqueWallets]]
    /\ handler' = [handler EXCEPT ![h].pc = "gating",
                                  ![h].gateCalls = @ + 1]

\* The await of recordWalletInteraction settles.  It is outside the try
\* block: a rejection rejects handleProjectEvent (onData catches and logs it)
\* and the gate is not called.
recordSettles(h) ==
    /\ handler[h].pc = "recording"
    /\ pc[h] = "done"
    /\ IF result[h] = Threw
       THEN /\ handler' = [handler EXCEPT ![h].pc = "threw"]
            /\ pass' = pass
       ELSE callGate(h)
    /\ UNCHANGED <<cfg, storeVars, user_notification_preferences,
                   push_subscriptions, projectsTable, subscribedProjectIds,
                   activeSubscriptions, streams, run>>

\* One of the queries awaited by sendPushToProjectSubscribers rejects instead
\* of resolving to a { data, error } result: the pass throws.
gateRejects(h) ==
    /\ pass[h].pc \in {"fetchPreferences", "fetchSubscriptions"}
    /\ pass' = [pass EXCEPT ![h].pc = "done", ![h].result = Threw]
    /\ UNCHANGED <<cfg, storeVars, user_notification_preferences,
                   push_subscriptions, trackerVars>>

\* The await of sendPushToProjectSubscribers settles: the counts are logged,
\* or the catch block logs a warning; handleProjectEvent returns either way.
gateSettles(h) ==
    /\ handler[h].pc = "gating"
    /\ pass[h].pc = "done"
    /\ handler' = [handler EXCEPT ![h].pc = "done"]
    /\ UNCHANGED <<cfg, storeVars, gateVars, projectsTable,
                   subscribedProjectIds, activeSubscriptions, streams, run>>

RunStep(r) ==
    \/ getAllProjects(r)
    \/ subscribeToProject(r)
    \/ subscribeToProjectEvents(r)
    \/ subscribeSettles(r)
    \/ addSubscribed(r)

\* server/tracker.js on SIGINT or SIGTERM: stopVolumeTracking() (unsubscribeAll
\* and subscribedProjectIds.clear()), then process.exit(0) in the same tick.
\* Every pending continuation of the process is dropped where it is; the
\* files stay as they are.
Shutdown ==
    /\ run[0].pc # "exited"
    /\ activeSubscriptions' = {}
    /\ streams' = [p \in ProjectIds |-> 0]
    /\ subscribedProjectIds' = {}
    /\ run' = [r \in Runs |-> [IdleRun EXCEPT !.pc = "exited"]]
    /\ pc' = [t \in Tasks |-> IF InFlight(t) THEN "crashed" ELSE pc[t]]
    /\ fileLock' = [p \in AllProcs |-> FALSE]
    /\ lockWaiters' = [p \in AllProcs |-> <<>>]
    /\ UNCHANGED <<cfg, now, ticks, crashes, lockFile, dataFile, tmpFile, proc,
                   op, loaded, out, at, entered, result, hist, written,
                   projectsTable, handler>>

(***************************************************************************)
(* The periodic jobs of the tracker: volume-tracker.ts, lines 171-218.     *)
(***************************************************************************)

\* Calls of syncToSupabase (every 5 minutes) and of runCleanupAndUpdate (at
\* startup and every hour).
SyncRuns == 1..NumSyncRuns
IdleSync == [pc |-> "idle", kind |-> "", task |-> 0]

\* The 5 minute interval fires: syncToSupabase awaits getAllProjectStats().
syncToSupabase(r) ==
    /\ sync[r].pc = "idle"
    /\ sync' = [sync EXCEPT ![r] = [pc |-> "stats", kind |-> "sync",
                                    task |-> 0]]
    /\ UNCHANGED <<cfg, storeVars, recalcs>>

\* Startup, or the 1 hour interval fires: runCleanupAndUpdate awaits
\* cleanupOldWallets().
runCleanupAndUpdate(r) ==
    /\ sync[r].pc = "idle"
    /\ \E t \in Tasks :
          /\ CallCleanup(t)
          /\ sync' = [sync EXCEPT ![r] = [pc |-> "cleanup", kind |-> "cleanup",
                                          task |-> t]]
    /\ UNCHANGED recalcs

\* cleanupOldWallets settles; a rejection goes to the catch block.
cleanupSettles(r) ==
    /\ sync[r].pc = "cleanup"
    /\ pc[sync[r].task] = "done"
    /\ sync' = [sync EXCEPT ![r].pc =
                   IF result[sync[r].task] = Threw THEN "failed" ELSE "stats"]
    /\ UNCHANGED <<cfg, storeVars, recalcs>>

\* await getAllProjectStats(): the stats of every project of the snapshot,
\* or an error.  syncToSupabase returns when there is no project.
getAllProjectStats(r) ==
    /\ sync[r].pc = "stats"
    /\ \/ sync' = [sync EXCEPT ![r].pc = "failed"]
       \/ sync' = [sync EXCEPT ![r].pc =
                      IF /\ sync[r].kind = "sync"
                         /\ (dataFile.state # "ok" \/ DOMAIN dataFile.json = {})
                      THEN "done" ELSE "batch"]
    /\ UNCHANGED <<cfg, storeVars, recalcs>>

\* await batchUpdateProjectVolumes(allStats)
batchUpdateProjectVolumes(r) ==
    /\ sync[r].pc = "batch"
    /\ \E ok \in BOOLEAN :
          sync' = [sync EXCEPT ![r].pc = IF ok THEN "rank" ELSE "failed"]
    /\ UNCHANGED <<cfg, storeVars, recalcs>>

\* await recalculateRankings(): the rankings are recomputed at once (the
\* project list is fetched, sorted and every row updated); an error goes to
\* the caller's catch block.
recalculateRankings(r) ==
    /\ sync[r].pc = "rank"
    /\ recalcs' = Append(recalcs, [by |-> r, at |-> now])
    /\ \E ok \in BOOLEAN :
          sync' = [sync EXCEPT ![r].pc = IF ok THEN "done" ELSE "failed"]
    /\ UNCHANGED <<cfg, storeVars>>

SyncStep(r) ==
    \/ cleanupSettles(r)
    \/ getAllProjectStats(r)
    \/ batchUpdateProjectVolumes(r)
    \/ recalculateRankings(r)

(***************************************************************************)
(* Preference saves: user-notification-preferences.ts, lines 23-138.       *)
(***************************************************************************)

\* Calls of setUserPreference and deleteUserPreference made by the API route;
\* requests are handled concurrently.
PrefCalls == 1..NumPrefCalls
IdlePrefCall ==
    [pc |-> "idle", kind |-> "", userId |-> "", projectId |-> "",
     percentageThreshold |-> 0, enabled |-> FALSE, existing |-> {},
     result |-> Pending]

\* The settings the preference form sends: a threshold (in hundredths of a
\* percent, as in the table) and the enabled flag.
Settings ==
    {[percentageThreshold |-> 500, enabled |-> TRUE],
     [percentageThreshold |-> 1000, enabled |-> FALSE]}

\* The rows of the table with the given user_id and project_id.
RowsOf(userId, projectId) ==
    {r \in user_notification_preferences :
        r.user_id = userId /\ r.project_id = projectId}

\* setUserPreference(userId, projectId, percentageThreshold, enabled) is
\* called: it awaits getUserPreference.
setUserPreference(c) ==
    /\ prefCall[c].pc \in {"idle", "done"}
    /\ \E userId \in UserIds, setting \in Settings :
          prefCall' = [prefCall EXCEPT ![c] =
                          [IdlePrefCall EXCEPT
                              !.pc = "select", !.kind = "set",
                              !.userId = userId, !.projectId = "p1",
                              !.percentageThreshold =
                                  setting.percentageThreshold,
                              !.enabled = setting.enabled]]
    /\ UNCHANGED user_notification_preferences

\* deleteUserPreference(userId, projectId) is called: it awaits the delete.
deleteUserPreference(c) ==
    /\ prefCall[c].pc \in {"idle", "done"}
    /\ \E userId \in UserIds :
          prefCall' = [prefCall EXCEPT ![c] =
                          [IdlePrefCall EXCEPT
                              !.pc = "delete", !.kind = "delete",
                              !.userId = userId, !.projectId = "p1"]]
    /\ UNCHANGED user_notification_preferences

\* getUserPreference: select ... .single().  Anything but exactly one row is
\* the error PGRST116, which gives null, and setUserPreference goes on to
\* insert; one row makes it go on to update; any other error is thrown.
getUserPreference(c) ==
    /\ prefCall[c].pc = "select"
    /\ \/ LET rows == RowsOf(prefCall[c].userId, prefCall[c].projectId)
          IN  IF Cardinality(rows) = 1
              THEN prefCall' = [prefCall EXCEPT ![c].pc = "update",
                                                ![c].existing = rows]
              ELSE prefCall' = [prefCall EXCEPT ![c].pc = "insert"]
       \/ prefCall' = [prefCall EXCEPT ![c].pc = "done", ![c].result = Threw]
    /\ UNCHANGED user_notification_preferences

\* An update that writes the row as a first save would.
updateExistingResets(c) ==
    /\ prefCall[c].pc = "update"
    /\ LET rows == RowsOf(prefCall[c].userId, prefCall[c].projectId)
           new == {[r EXCEPT !.percentage_threshold =
                                 prefCall[c].percentageThreshold,
                             !.enabled = prefCall[c].enabled,
                             !.last_notified_volume = 0] : r \in rows}
       IN  /\ user_notification_preferences' =
                 (user_notification_preferences \ rows) \cup new
           /\ IF Cardinality(new) = 1
              THEN prefCall' = [prefCall EXCEPT
                                  ![c].pc = "done",
                                  ![c].result =
                                      Returned(CHOOSE r \in new : TRUE)]
              ELSE prefCall' = [prefCall EXCEPT ![c].pc = "done",
                                               ![c].result = Threw]

\* setUserPreference, "Update existing": update({ percentage_threshold,
\* enabled, updated_at }).eq(user_id).eq(project_id).select().single().  The
\* rows that match now are written; .single() makes anything but one row
\* written an error (the row may have been deleted since the select).  A
\* failed request writes nothing and throws.
updateExisting(c) ==
    /\ prefCall[c].pc = "update"
    /\ \/ LET rows == RowsOf(prefCall[c].userId, prefCall[c].projectId)
              new == {[r EXCEPT !.percentage_threshold =
                                    prefCall[c].percentageThreshold,
                                !.enabled = prefCall[c].enabled] : r \in rows}
          IN  /\ user_notification_preferences' =
                    (user_notification_preferences \ rows) \cup new
              /\ IF Cardinality(new) = 1
                 THEN prefCall' = [prefCall EXCEPT
                                     ![c].pc = "done",
                                     ![c].result =
                                         Returned(CHOOSE r \in new : TRUE)]
                 ELSE prefCall' = [prefCall EXCEPT ![c].pc = "done",
                                                  ![c].result = Threw]
       \/ /\ prefCall' = [prefCall EXCEPT ![c].pc = "done", ![c].result = Threw]
          /\ UNCHANGED user_notification_preferences

\* setUserPreference, "Create new": insert({ ..., last_notified_volume: 0 })
\* .select().single().  UNIQUE(user_id, project_id) rejects the insert when a
\* row with the key exists (another save created it since the select); a
\* failed request inserts nothing; both throw.
createNew(c) ==
    /\ prefCall[c].pc = "insert"
    /\ \/ LET row == [user_id |-> prefCall[c].userId,
                      project_id |-> prefCall[c].projectId,
                      percentage_threshold |-> prefCall[c].percentageThreshold,
                      enabled |-> prefCall[c].enabled,
                      last_notified_volume |-> 0]
          IN  IF RowsOf(prefCall[c].userId, prefCall[c].projectId) = {}
              THEN /\ user_notification_preferences' =
                         user_notification_preferences \cup {row}
                   /\ prefCall' = [prefCall EXCEPT ![c].pc = "done",
                                                   ![c].result = Returned(row)]
              ELSE /\ UNCHANGED user_notification_preferences
                   /\ prefCall' = [prefCall EXCEPT ![c].pc = "done",
                                                   ![c].result = Threw]
       \/ /\ prefCall' = [prefCall EXCEPT ![c].pc = "done", ![c].result = Threw]
          /\ UNCHANGED user_notification_preferences

\* deleteUserPreference: delete().eq(user_id).eq(project_id); an error is
\* thrown and nothing is deleted.
deleteRows(c) ==
    /\ prefCall[c].pc = "delete"
    /\ \/ /\ user_notification_preferences' =
                user_notification_preferences
                    \ RowsOf(prefCall[c].userId, prefCall[c].projectId)
          /\ prefCall' = [prefCall EXCEPT ![c].pc = "done",
                                          ![c].result = Returned("void")]
       \/ /\ prefCall' = [prefCall EXCEPT ![c].pc = "done", ![c].result = Threw]
          /\ UNCHANGED user_notification_preferences

PrefStep(c) ==
    \/ getUserPreference(c)
    \/ updateExisting(c)
    \/ createNew(c)
    \/ deleteRows(c)

\* No periodic job runs and no preference is being saved.
InitNoServer ==
    /\ sync = [r \in SyncRuns |-> IdleSync]
    /\ recalcs = <<>>
    /\ prefCall = [c \in PrefCalls |-> IdlePrefCall]

(***************************************************************************)
(* Specifications.                                                         *)
(***************************************************************************)

\* A lock file left behind by a process that died holding it.
LeftoverLock == [exists |-> TRUE, pid |-> 0, mtime |-> 0]

InitStore ==
    /\ now = 0
    /\ ticks = 0
    /\ crashes = 0
    /\ lockFile \in {NoLockFile, LeftoverLock}
    /\ dataFile = AbsentFile
    /\ tmpFile = AbsentFile
    /\ fileLock = [p \in AllProcs |-> FALSE]
    /\ lockWaiters = [p \in AllProcs |-> <<>>]
    /\ pc = [t \in Tasks |-> "idle"]
    /\ proc = [t \in Tasks |-> 0]
    /\ op = [t \in Tasks |-> NoOp]
    /\ loaded = [t \in Tasks |-> EmptyMap]
    /\ out = [t \in Tasks |-> EmptyMap]
    /\ at = [t \in Tasks |-> 0]
    /\ entered = [t \in Tasks |-> 0]
    /\ result = [t \in Tasks |-> Pending]
    /\ hist = <<>>
    /\ written = {}

\* No project is subscribed to and no event is handled.
InitNoTracker ==
    /\ projectsTable = [p \in ProjectIds |-> [hasEvents |-> TRUE]]
    /\ subscribedProjectIds = {}
    /\ activeSubscriptions = {}
    /\ streams = [p \in ProjectIds |-> 0]
    /\ run = [r \in Runs |-> IdleRun]
    /\ handler = [h \in Handlers |-> IdleHandler]
    /\ InitNoServer

\* No notification pass is made.
InitNoGate ==
    /\ user_notification_preferences = {}
    /\ push_subscriptions = {}
    /\ pass = [g \in Passes |-> IdlePass]
    /\ InitNoTracker

StoreStep(t) ==
    \/ waitForLock(t)
    \/ CheckLockFile(t)
    \/ StatLock(t)
    \/ UnlinkStale(t)
    \/ CreateLockFile(t)
    \/ Load(t)
    \/ OpenTmp(t)
    \/ WriteTmp(t)
    \/ Rename(t)
    \/ ReleaseCheck(t)
    \/ UnlinkLock(t)

\* One tracker process whose store calls are made one after another, in any
\* order, while the clock advances by hours and days.
Init ==
    /\ InitStore
    /\ InitNoGate
    /\ cfg = [procs |-> {1}, maxInFlight |-> 1,
              projectIds |-> ProjectIds, addresses |-> Addresses]

Next ==
    /\ UNCHANGED <<gateVars, trackerVars, serverVars, apiVars>>
    /\ \/ \E t \in Tasks : CallRecord(t) \/ CallCleanup(t) \/ CallStats(t)
       \/ \E t \in Tasks : StoreStep(t)
       \/ TickHours

Spec == Init /\ [][Next]_vars

\* One tracker process with concurrent event handlers (spec section 5).
InitConc ==
    /\ InitStore
    /\ InitNoGate
    /\ cfg = [procs |-> {1}, maxInFlight |-> NumTasks,
              projectIds |-> ProjectIds, addresses |-> Addresses]

NextConc ==
    /\ UNCHANGED <<gateVars, trackerVars, serverVars, apiVars>>
    /\ \/ \E t \in Tasks : CallRecord(t)
       \/ \E t \in Tasks : StoreStep(t)
       \/ TickLock

SpecConc == InitConc /\ [][NextConc]_vars

\* One tracker process that may crash at any step and be restarted.
NextCrash ==
    /\ UNCHANGED <<gateVars, trackerVars, serverVars, apiVars>>
    /\ \/ \E t \in Tasks : CallRecord(t)
       \/ \E t \in Tasks : StoreStep(t)
       \/ TickLock
       \/ \E p \in AllProcs : Crash(p)

InitCrash ==
    /\ InitStore
    /\ InitNoGate
    /\ cfg = [procs |-> {1}, maxInFlight |-> NumTasks,
              projectIds |-> {"p1"}, addresses |-> {<<120, 65>>, <<120, 98>>}]

SpecCrash == InitCrash /\ [][NextCrash]_vars

\* The same, with every pending await of a store call eventually resumed: the
\* event loop runs every continuation and every back-off timer fires.
FairSpecCrash ==
    /\ InitCrash
    /\ [][NextCrash]_vars
    /\ \A t \in Tasks : WF_vars(StoreStep(t) /\ UNCHANGED <<gateVars, trackerVars, serverVars, apiVars>>)

\* One tracker process started on a data directory whose snapshot file is
\* absent or is not a readable JSON document; calls are made one after
\* another.
InitCorrupt ==
    /\ now = 0
    /\ ticks = 0
    /\ crashes = 0
    /\ lockFile \in {NoLockFile, LeftoverLock}
    /\ dataFile \in {AbsentFile, CorruptFile}
    /\ tmpFile = AbsentFile
    /\ fileLock = [p \in AllProcs |-> FALSE]
    /\ lockWaiters = [p \in AllProcs |-> <<>>]
    /\ pc = [t \in Tasks |-> "idle"]
    /\ proc = [t \in Tasks |-> 0]
    /\ op = [t \in Tasks |-> NoOp]
    /\ loaded = [t \in Tasks |-> EmptyMap]
    /\ out = [t \in Tasks |-> EmptyMap]
    /\ at = [t \in Tasks |-> 0]
    /\ entered = [t \in Tasks |-> 0]
    /\ result = [t \in Tasks |-> Pending]
    /\ hist = <<>>
    /\ written = {}
    /\ InitNoGate
    /\ cfg = [procs |-> {1}, maxInFlight |-> 1,
              projectIds |-> ProjectIds, addresses |-> Addresses]

SpecCorrupt == InitCorrupt /\ [][Next]_vars

\* The tracker process from its start: startup subscriptions, then the
\* discovery interval; no event arrives.
InitTrack ==
    /\ InitStore
    /\ user_notification_preferences = {}
    /\ push_subscriptions = {}
    /\ pass = [g \in Passes |-> IdlePass]
    /\ cfg = [procs |-> {1}, maxInFlight |-> 1,
              projectIds |-> ProjectIds, addresses |-> Addresses]
    /\ projectsTable \in [ProjectIds -> [hasEvents : BOOLEAN]]
    /\ subscribedProjectIds = {}
    /\ activeSubscriptions = {}
    /\ streams = [p \in ProjectIds |-> 0]
    /\ run = [r \in Runs |-> IdleRun]
    /\ handler = [h \in Handlers |-> IdleHandler]
    /\ InitNoServer

NextTrack ==
    /\ UNCHANGED <<cfg, storeVars, gateVars, serverVars, apiVars>>
    /\ \/ initializeVolumeTracking
       \/ \E r \in Runs : RunStep(r)
       \/ checkForNewProjects

SpecTrack == InitTrack /\ [][NextTrack]_vars

\* The same, with every awaited promise of a run eventually settled and its
\* continuation run, and the interval timer firing.
FairSpecTrack ==
    /\ InitTrack
    /\ [][NextTrack]_vars
    /\ WF_vars(initializeVolumeTracking /\ UNCHANGED <<cfg, storeVars, gateVars, serverVars, apiVars>>)
    /\ WF_vars(checkForNewProjects /\ UNCHANGED <<cfg, storeVars, gateVars, serverVars, apiVars>>)
    /\ \A r \in Runs :
          WF_vars(RunStep(r) /\ UNCHANGED <<cfg, storeVars, gateVars, serverVars, apiVars>>)

\* The tracker process running its periodic jobs over a store that is
\* empty or holds one project.
InitServer ==
    /\ now = 0
    /\ ticks = 0
    /\ crashes = 0
    /\ lockFile = NoLockFile
    /\ dataFile \in {AbsentFile,
                     OkFile(recordBody(EmptyMap, "p1", <<120, 97>>, 0).data)}
    /\ tmpFile = AbsentFile
    /\ fileLock = [p \in AllProcs |-> FALSE]
    /\ lockWaiters = [p \in AllProcs |-> <<>>]
    /\ pc = [t \in Tasks |-> "idle"]
    /\ proc = [t \in Tasks |-> 0]
    /\ op = [t \in Tasks |-> NoOp]
    /\ loaded = [t \in Tasks |-> EmptyMap]
    /\ out = [t \in Tasks |-> EmptyMap]
    /\ at = [t \in Tasks |-> 0]
    /\ entered = [t \in Tasks |-> 0]
    /\ result = [t \in Tasks |-> Pending]
    /\ hist = <<>>
    /\ written = {}
    /\ cfg = [procs |-> {1}, maxInFlight |-> NumTasks,
              projectIds |-> {"p1"}, addresses |-> {<<120, 97>>}]
    /\ InitNoGate

NextServer ==
    /\ UNCHANGED <<gateVars, trackerVars, apiVars>>
    /\ \/ \E r \in SyncRuns : syncToSupabase(r)
       \/ \E r \in SyncRuns : runCleanupAndUpdate(r)
       \/ \E t \in Tasks : StoreStep(t) /\ UNCHANGED <<serverVars, apiVars>>
       \/ \E r \in SyncRuns : SyncStep(r)
       \/ TickHours /\ UNCHANGED <<serverVars, apiVars>>

SpecServer == InitServer /\ [][NextServer]_vars

\* One tracker process recording events until it receives SIGINT or SIGTERM.
NextShutdown ==
    /\ UNCHANGED <<gateVars, serverVars, apiVars>>
    /\ \/ /\ run[0].pc # "exited"
          /\ \E t \in Tasks : CallRecord(t)
          /\ UNCHANGED trackerVars
       \/ \E t \in Tasks : StoreStep(t) /\ UNCHANGED trackerVars
       \/ TickLock /\ UNCHANGED trackerVars
       \/ Shutdown

SpecShutdown == InitCrash /\ [][NextShutdown]_vars

\* One tracker process whose data directory may refuse the creation of the
\* lock file (permissions, a full disk, no file descriptor left).
NextLockFail ==
    /\ UNCHANGED <<gateVars, trackerVars, serverVars, apiVars>>
    /\ \/ \E t \in Tasks : CallRecord(t)
       \/ \E t \in Tasks : StoreStep(t)
       \/ \E t \in Tasks : CreateLockFileFails(t)
       \/ TickLock

SpecLockFail == InitCorrupt /\ [][NextLockFail]_vars

\* Several processes sharing the data directory.
InitProcs ==
    /\ InitStore
    /\ InitNoGate
    /\ cfg = [procs |-> AllProcs, maxInFlight |-> NumTasks,
              projectIds |-> {"p1"}, addresses |-> {<<120, 65>>, <<120, 98>>}]

NextProcs ==
    /\ UNCHANGED <<gateVars, trackerVars, serverVars, apiVars>>
    /\ \/ \E t \in Tasks : CallRecord(t)
       \/ \E t \in Tasks : StoreStep(t)
       \/ TickLock

SpecProcs == InitProcs /\ [][NextProcs]_vars

\* The rows a preference save can have created: one row at most per user and
\* project, last_notified_volume 0.
PreferenceRows ==
    [user_id : UserIds, project_id : {"p1"}, percentage_threshold : Thresholds,
     last_notified_volume : {0}, enabled : BOOLEAN]
Endpoints ==
    {[endpoint |-> "e1", user_id |-> "u1"], [endpoint |-> "e2", user_id |-> "u1"],
     [endpoint |-> "e3", user_id |-> "u2"]}

\* Notification passes for one project, made one after another with any
\* volumes, over any preferences and endpoints.
InitGate ==
    /\ InitStore
    /\ lockFile = NoLockFile
    /\ cfg = [procs |-> {1}, maxInFlight |-> 1,
              projectIds |-> {"p1"}, addresses |-> {}]
    /\ user_notification_preferences \in
          {S \in SUBSET PreferenceRows :
              \A r1, r2 \in S : r1.user_id = r2.user_id => r1 = r2}
    /\ push_subscriptions \in SUBSET Endpoints
    /\ pass = [g \in Passes |-> IdlePass]
    /\ InitNoTracker

NextGate ==
    /\ UNCHANGED <<trackerVars, serverVars, apiVars>>
    /\ \/ \E g \in Passes : CallGate(g)
       \/ \E g \in Passes : GateStep(g)

SpecGate == InitGate /\ [][NextGate]_vars

\* The rows the table can hold once passes have run: last_notified_volume is
\* 0 or a volume some pass has written.
StoredRows ==
    [user_id : UserIds, project_id : {"p1"}, percentage_threshold : Thresholds,
     last_notified_volume : {0, 100}, enabled : BOOLEAN]

\* Preference saves and deletes of the API route, overlapping, over a table
\* that holds at most one row per user.
InitPrefs ==
    /\ InitStore
    /\ lockFile = NoLockFile
    /\ cfg = [procs |-> {1}, maxInFlight |-> 1,
              projectIds |-> {"p1"}, addresses |-> {}]
    /\ user_notification_preferences \in
          {S \in SUBSET {r \in StoredRows : r.percentage_threshold = 1500} :
              \A r1, r2 \in S : r1.user_id = r2.user_id => r1 = r2}
    /\ push_subscriptions = {}
    /\ pass = [g \in Passes |-> IdlePass]
    /\ InitNoTracker

NextPrefs ==
    /\ UNCHANGED <<cfg, storeVars, push_subscriptions, pass, trackerVars,
                   serverVars>>
    /\ \/ \E c \in PrefCalls : setUserPreference(c)
       \/ \E c \in PrefCalls : deleteUserPreference(c)
       \/ \E c \in PrefCalls : PrefStep(c)

SpecPrefs == InitPrefs /\ [][NextPrefs]_vars

\* Notification passes of handleProjectEvent calls that overlap: a pass is
\* started while the previous one is still awaiting.  One subscriber with
\* one endpoint or two.
InitGateConc ==
    /\ InitStore
    /\ lockFile = NoLockFile
    /\ cfg = [procs |-> {1}, maxInFlight |-> NumPasses,
              projectIds |-> {"p1"}, addresses |-> {}]
    /\ user_notification_preferences \in
          {{r} : r \in {x \in PreferenceRows : x.user_id = "u1"}}
    /\ push_subscriptions \in
          {S \in SUBSET Endpoints : \A sub \in S : sub.user_id = "u1"}
    /\ pass = [g \in Passes |-> IdlePass]
    /\ InitNoTracker

SpecGateConc == InitGateConc /\ [][NextGate]_vars

\* The tracker process handling events of one project, several at a time,
\* for one subscriber with one endpoint or none; at the start the
\* snapshot file is absent or unreadable and a lock file may be left over.
InitHandler ==
    /\ now = 0
    /\ ticks = 0
    /\ crashes = 0
    /\ lockFile \in {NoLockFile, LeftoverLock}
    /\ dataFile \in {AbsentFile, CorruptFile}
    /\ tmpFile = AbsentFile
    /\ fileLock = [p \in AllProcs |-> FALSE]
    /\ lockWaiters = [p \in AllProcs |-> <<>>]
    /\ pc = [t \in Tasks |-> "idle"]
    /\ proc = [t \in Tasks |-> 0]
    /\ op = [t \in Tasks |-> NoOp]
    /\ loaded = [t \in Tasks |-> EmptyMap]
    /\ out = [t \in Tasks |-> EmptyMap]
    /\ at = [t \in Tasks |-> 0]
    /\ entered = [t \in Tasks |-> 0]
    /\ result = [t \in Tasks |-> Pending]
    /\ hist = <<>>
    /\ written = {}
    /\ cfg = [procs |-> {1}, maxInFlight |-> NumTasks,
              projectIds |-> {"p1"}, addresses |-> {<<120, 65>>, <<120, 97>>}]
    /\ user_notification_preferences \in
          {{}, {[user_id |-> "u1", project_id |-> "p1",
                 percentage_threshold |-> 500, last_notified_volume |-> 0,
                 enabled |-> TRUE]}}
    /\ push_subscriptions \in
          SUBSET {e \in Endpoints : e.endpoint = "e1"}
    /\ pass = [g \in Passes |-> IdlePass]
    /\ InitNoTracker

NextHandler ==
    /\ UNCHANGED <<serverVars, apiVars>>
    /\ \/ \E h \in Handlers : handleProjectEvent(h)
       \/ \E t \in Tasks : StoreStep(t) /\ UNCHANGED <<gateVars, trackerVars>>
       \/ \E h \in Handlers : recordSettles(h)
       \/ \E g \in Passes : GateStep(g) /\ UNCHANGED trackerVars
       \/ \E h \in Handlers : gateRejects(h)
       \/ \E h \in Handlers : gateSettles(h)
       \/ TickLock /\ UNCHANGED <<gateVars, trackerVars>>

SpecHandler == InitHandler /\ [][NextHandler]_vars

(***************************************************************************)
(* Properties.                                                             *)
(***************************************************************************)

\* A task is inside the store's critical section from the return of
\* acquireLock to the call of releaseFileLock.
InCriticalSection(t) == pc[t] \in {"load", "openTmp", "writeTmp", "rename"}

Normalized(o) == toLowerCase(o.walletAddress)

AllDone == \A t \in Tasks : pc[t] = "done"

CallsFor(projectId) ==
    {t \in Tasks : op[t].kind = "record" /\ op[t].projectId = projectId}

\* A task holds, or is being handed, the gate of its process.
HoldsGate(t) ==
    pc[t] \in {"checkLockFile", "stat", "unlinkStale", "create", "load",
               "openTmp", "writeTmp", "rename", "release", "unlinkLock"}

\* C1: concurrent recordWalletInteraction calls in one process all complete
\* (no call throws, and a call that waits for the gate always has a running
\* holder that will hand it over), and once they have returned each project's
\* wallet set is the set of distinct lower-cased addresses submitted for it
\* and its total_transactions is the number of calls made for it.
C1_NoLostUpdate ==
    /\ \A t \in Tasks : result[t].status # "error"
    /\ \A t \in Tasks :
          pc[t] = "waiting" =>
              \E u \in Tasks : u # t /\ proc[u] = proc[t] /\ HoldsGate(u)
    /\ AllDone =>
          /\ dataFile.state = "ok"
          /\ DOMAIN dataFile.json = {p \in ProjectIds : CallsFor(p) # {}}
          /\ \A p \in DOMAIN dataFile.json :
                /\ DOMAIN dataFile.json[p].wallets
                     = {Normalized(op[t]) : t \in CallsFor(p)}
                /\ dataFile.json[p].total_transactions
                     = Cardinality(CallsFor(p))

\* C1's case: three calls have returned, two of them for the same project and
\* the same lower-cased address, and they did not run in the order they were
\* made (a later call went through the gate first).
C1_Witness ==
    /\ AllDone
    /\ hist # <<1, 2, 3>>
    /\ \E t, u \in Tasks :
          /\ t # u
          /\ op[t].projectId = op[u].projectId
          /\ op[t].walletAddress # op[u].walletAddress
          /\ Normalized(op[t]) = Normalized(op[u])

\* C2: at most one writer at a time is inside a store critical section, among
\* the tasks of one process and among the processes sharing the snapshot file.
C2_OneWriterAtATime ==
    \A t1, t2 \in Tasks :
        InCriticalSection(t1) /\ InCriticalSection(t2) => t1 = t2

\* C2, the case the claim names: the writers overlap although none of them
\* has been inside its critical section for longer than the staleness
\* threshold (two acquirers removed the same abandoned lock file).
C2_OneWriterWhileSectionsAreShort ==
    (\A t \in Tasks : InCriticalSection(t) => now - entered[t] <= StaleLockMs)
        => C2_OneWriterAtATime

\* C3: the canonical snapshot file is absent or holds one complete snapshot
\* that a saveData wrote to the end, also after a crash at any step of
\* saveData; what loadData returns is the empty store or such a snapshot, never
\* the content of a leftover temp file, and loadData never fails on it.
C3_SnapshotNeverPartial ==
    /\ dataFile.state \in {"absent", "ok"}
    /\ dataFile.state = "ok" => dataFile.json \in written
    /\ \A t \in Tasks :
          /\ result[t].status # "error"
          /\ loaded[t] \in written \cup {EmptyMap}
          /\ pc[t] \in {"openTmp", "writeTmp", "rename"} =>
                loaded[t] = dataFile.json

\* C3's case: a writer died inside saveData with the temp file half written,
\* the canonical file holds the snapshot of an earlier save, and a call made
\* after the restart has loaded exactly that snapshot.
C3_Witness ==
    /\ crashes = 1
    /\ tmpFile.state = "partial"
    /\ pc[tmpFile.w] = "crashed"
    /\ dataFile.state = "ok"
    /\ \E u \in Tasks :
          /\ pc[u] = "openTmp"
          /\ loaded[u] = dataFile.json
          /\ loaded[u] # EmptyMap

\* Calls in the order they returned.
Last == hist[Len(hist)]
WalletsBefore(t, projectId) ==
    IF projectId \in DOMAIN loaded[t] THEN loaded[t][projectId].wallets
    ELSE EmptyMap
SameCallTwice(i) ==
    /\ op[hist[i]].kind = "record"
    /\ op[hist[i + 1]].kind = "record"
    /\ op[hist[i + 1]].projectId = op[hist[i]].projectId
    /\ op[hist[i + 1]].walletAddress = op[hist[i]].walletAddress
SecondAfterFirst(i) ==
    /\ result[hist[i + 1]].value.isNewWallet = FALSE
    /\ result[hist[i + 1]].value.uniqueWallets
         = result[hist[i]].value.uniqueWallets
    /\ result[hist[i + 1]].value.totalTransactions
         = result[hist[i]].value.totalTransactions + 1

\* C4 as claimed: recordWalletInteraction(p, w) twice in a row returns
\* isNewWallet = true then false, the same uniqueWallets, and
\* totalTransactions one higher.
C4_TrueThenFalse ==
    \A i \in 1..(Len(hist) - 1) :
        SameCallTwice(i) =>
            /\ result[hist[i]].value.isNewWallet = TRUE
            /\ SecondAfterFirst(i)

\* C4 amended: recordWalletInteraction(p, w) twice in a row returns
\* isNewWallet = false the second time, the same uniqueWallets and
\* totalTransactions one higher; the first call returns isNewWallet = true
\* exactly when the lower-cased w was not in p's wallet map before it.
C4_SecondIsNotNew ==
    \A i \in 1..(Len(hist) - 1) :
        SameCallTwice(i) =>
            /\ result[hist[i]].value.isNewWallet
                 = (Normalized(op[hist[i]])
                      \notin DOMAIN WalletsBefore(hist[i], op[hist[i]].projectId))
            /\ SecondAfterFirst(i)

\* C4's case: the same call twice in a row, the first on a wallet not yet
\* tracked.
C4_Witness ==
    \E i \in 1..(Len(hist) - 1) :
        /\ SameCallTwice(i)
        /\ result[hist[i]].value.isNewWallet = TRUE
        /\ result[hist[i + 1]].value.isNewWallet = FALSE

\* Two addresses that differ at most in letter case.
SameIgnoringCase(a, b) ==
    /\ Len(a) = Len(b)
    /\ \A i \in DOMAIN a : toLowerChar(a[i]) = toLowerChar(b[i])

\* C5: a project's wallet map never holds two entries whose addresses differ
\* only in letter case, and an interaction sets the one entry of its address
\* (whatever the case it was submitted in) to the time of that interaction,
\* adds no other entry and changes no other entry.
C5_OneEntryPerAddress ==
    /\ \A p \in DOMAIN dataFile.json :
          \A k1, k2 \in DOMAIN dataFile.json[p].wallets :
              SameIgnoringCase(k1, k2) => k1 = k2
    /\ (Len(hist) > 0 /\ op[Last].kind = "record") =>
          LET p == op[Last].projectId
              before == WalletsBefore(Last, p)
              after == dataFile.json[p].wallets
          IN  \E k \in DOMAIN after :
                /\ SameIgnoringCase(k, op[Last].walletAddress)
                /\ DOMAIN after = DOMAIN before \cup {k}
                /\ getTime(after[k]) = at[Last]
                /\ \A j \in DOMAIN before \ {k} : after[j] = before[j]

\* C5's case: a wallet was recorded again under a different letter case at a
\* later time: still one entry, now carrying the later time.
C5_Witness ==
    /\ Len(hist) > 1
    /\ op[Last].kind = "record"
    /\ \E t \in Tasks :
          /\ t # Last
          /\ op[t].kind = "record"
          /\ op[t].projectId = op[Last].projectId
          /\ op[t].walletAddress # op[Last].walletAddress
          /\ Normalized(op[t]) = Normalized(op[Last])
          /\ at[t] < at[Last]
    /\ Cardinality(DOMAIN dataFile.json[op[Last].projectId].wallets) = 1
    /\ getTime(dataFile.json[op[Last].projectId].wallets[Normalized(op[Last])])
         = at[Last]

\* The step in which task t's saveData renames the temp file over the snapshot.
Saves(t) == pc[t] = "rename" /\ pc'[t] = "release"
Count(data, projectId) == Cardinality(DOMAIN data[projectId].wallets)

\* C6: over every store operation in any order, no step removes a project
\* from the snapshot or lowers its total_transactions; a project's wallet
\* count drops only in a save of cleanupOldWallets, and such a save changes
\* neither total_transactions nor last_interaction_at of any project.
C6_TotalsArePermanent ==
    [][ /\ dataFile'.state = "absent" => dataFile.state = "absent"
        /\ \A p \in DOMAIN dataFile.json :
              /\ p \in DOMAIN dataFile'.json
              /\ dataFile'.json[p].total_transactions
                   >= dataFile.json[p].total_transactions
              /\ Count(dataFile'.json, p) < Count(dataFile.json, p) =>
                    \E t \in Tasks : Saves(t) /\ op[t].kind = "cleanup"
              /\ (\E t \in Tasks : Saves(t) /\ op[t].kind = "cleanup") =>
                    /\ dataFile'.json[p].total_transactions
                         = dataFile.json[p].total_transactions
                    /\ dataFile'.json[p].last_interaction_at
                         = dataFile.json[p].last_interaction_at
      ]_vars

\* C6's case: cleanup has removed the last wallet of a project, whose entry
\* is still there with its transactions.
C6_Witness ==
    /\ Len(hist) > 0
    /\ op[Last].kind = "cleanup"
    /\ result[Last].value.totalRemoved > 0
    /\ \E p \in DOMAIN dataFile.json :
          /\ Count(dataFile.json, p) = 0
          /\ dataFile.json[p].total_transactions > 0

\* An entry is older than the retention window at time nowMs.
OlderThanWindow(iso, nowMs) == getTime(iso) < nowMs - 24 * 60 * 60 * 1000
Kept(wallets, nowMs) ==
    {k \in DOMAIN wallets : ~OlderThanWindow(wallets[k], nowMs)}
NothingOld(data, nowMs) ==
    \A p \in DOMAIN data : Kept(data[p].wallets, nowMs) = DOMAIN data[p].wallets

\* C7: after cleanupOldWallets the snapshot holds, for every project, exactly
\* the entries that were not older than now minus 24h (an entry exactly at the
\* cutoff stays), each with its lastSeen as before, and the unique-wallet count
\* reported for a project is the count before minus the number removed.
C7_RemovesExactlyTheOld ==
    (Len(hist) > 0 /\ op[Last].kind = "cleanup") =>
        /\ DOMAIN dataFile.json = DOMAIN loaded[Last]
        /\ \A p \in DOMAIN loaded[Last] :
              LET before == loaded[Last][p].wallets
                  after == dataFile.json[p].wallets
              IN  /\ DOMAIN after = Kept(before, at[Last])
                  /\ \A k \in DOMAIN after : after[k] = before[k]
                  /\ \A u \in result[Last].value.updates :
                        u.projectId = p =>
                          /\ u.uniqueWallets = Cardinality(Kept(before, at[Last]))
                          /\ u.uniqueWallets < Cardinality(DOMAIN before)
                  /\ Kept(before, at[Last]) # DOMAIN before =>
                        \E u \in result[Last].value.updates : u.projectId = p

\* C7's case: entries at now-25h and now-1h; the first is gone, the second
\* stays, and the count went from 2 to 1.
C7_Witness ==
    /\ Len(hist) > 0
    /\ op[Last].kind = "cleanup"
    /\ \E p \in DOMAIN loaded[Last] :
          /\ \E k1, k2 \in DOMAIN loaded[Last][p].wallets :
                /\ DOMAIN loaded[Last][p].wallets = {k1, k2}
                /\ getTime(loaded[Last][p].wallets[k1]) = at[Last] - 25 * HourMs
                /\ getTime(loaded[Last][p].wallets[k2]) = at[Last] - HourMs
                /\ DOMAIN dataFile.json[p].wallets = {k2}
          /\ \E u \in result[Last].value.updates :
                u.projectId = p /\ u.uniqueWallets = 1

\* C8: a cleanupOldWallets that finds no entry older than the retention
\* window writes neither the snapshot file nor the temp file in any of its
\* steps, and returns totalRemoved = 0 with no per-project update.
C8_NoOpCleanupWritesNothing ==
    /\ [](\A t \in Tasks :
            (/\ op[t].kind = "cleanup"
             /\ result[t].status = "ok"
             /\ NothingOld(loaded[t], at[t])) =>
                /\ result[t].value.totalRemoved = 0
                /\ result[t].value.updates = {})
    /\ [][\A t \in Tasks :
            (/\ op[t].kind = "cleanup"
             /\ pc'[t] # pc[t]
             /\ pc[t] = "load" => NothingOld(dataFile.json, now)
             /\ pc[t] \in {"openTmp", "writeTmp", "rename", "release",
                            "unlinkLock"} => NothingOld(loaded[t], at[t])) =>
                UNCHANGED <<dataFile, tmpFile>>
       ]_vars

\* C8's case: cleanup returned over a store that holds wallets, none of them
\* old enough to remove.
C8_Witness ==
    /\ Len(hist) > 0
    /\ op[Last].kind = "cleanup"
    /\ pc[Last] = "done"
    /\ result[Last].value.totalRemoved = 0
    /\ dataFile.state = "ok"
    /\ \E p \in DOMAIN loaded[Last] : Count(loaded[Last], p) > 0

\* What a returned pass knew of user userId, and what the table holds now.
PreferenceOf(g, userId) ==
    CHOOSE r \in pass[g].preferences : r.user_id = userId
EvaluatedUsers(g) == {sub.user_id : sub \in pass[g].subscriptions}
Notified(g, userId) == \E sub \in pass[g].attempted : sub.user_id = userId
StoredVolume(g, userId) ==
    LET r == CHOOSE r \in user_notification_preferences :
                 r.user_id = userId /\ r.project_id = pass[g].projectId
    IN  r.last_notified_volume

C10_FirstNotificationAlwaysSent ==
    \A g \in Passes :
        pass[g].pc = "done" =>
            \A u \in EvaluatedUsers(g) :
                (/\ PreferenceOf(g, u).last_notified_volume = 0
                 /\ PreferenceOf(g, u).percentage_threshold > 0) =>
                    /\ pass[g].currentVolume > 0 =>
                          /\ Notified(g, u)
                          /\ StoredVolume(g, u) = pass[g].currentVolume
                    /\ pass[g].currentVolume = 0 => ~Notified(g, u)

\* The change of a subscriber meets its threshold: the code's rule, stated on
\* the subscriber's own threshold and stored volume only.
MeetsOwnThreshold(last, cur, threshold) ==
    IF last > 0
    THEN Abs(cur - last) * 100 * 100 >= threshold * last
    ELSE IF cur > 0 THEN 100 * 100 >= threshold ELSE 0 >= threshold

\* C11: in a pass every evaluated subscriber is decided by its own threshold
\* and its own lastNotifiedVolume alone, whatever the other subscribers of the
\* project have; and no step changes a preference row other than by setting
\* the lastNotifiedVolume of a subscriber the pass notified to currentVolume:
\* the row of a skipped subscriber is never written.
C11_SubscribersAreIndependent ==
    /\ [](\A g \in Passes :
            pass[g].pc = "done" =>
                \A u \in EvaluatedUsers(g) :
                    /\ Notified(g, u) <=>
                          MeetsOwnThreshold(
                              PreferenceOf(g, u).last_notified_volume,
                              pass[g].currentVolume,
                              PreferenceOf(g, u).percentage_threshold)
                    /\ ~Notified(g, u) =>
                          StoredVolume(g, u)
                            = PreferenceOf(g, u).last_notified_volume)
    /\ [][\A r \in user_notification_preferences :
            \/ r \in user_notification_preferences'
            \/ \E g \in Passes :
                  /\ Notified(g, r.user_id)
                  /\ r.user_id \notin pass[g].skippedUsers
                  /\ r.project_id = pass[g].projectId
                  /\ [r EXCEPT !.last_notified_volume = pass[g].currentVolume]
                        \in user_notification_preferences'
       ]_vars

\* C11's case: volume 100 -> 110; subscriber A at 5% was notified and has 110
\* stored, subscriber B at 15% was not and still has 100.
C11_Witness ==
    \E g \in Passes :
        /\ pass[g].pc = "done"
        /\ pass[g].currentVolume = 110
        /\ \E a, b \in EvaluatedUsers(g) :
              /\ PreferenceOf(g, a).last_notified_volume = 100
              /\ PreferenceOf(g, a).percentage_threshold = 500
              /\ Notified(g, a)
              /\ StoredVolume(g, a) = 110
              /\ PreferenceOf(g, b).last_notified_volume = 100
              /\ PreferenceOf(g, b).percentage_threshold = 1500
              /\ ~Notified(g, b)
              /\ StoredVolume(g, b) = 100

\* The endpoints a pass fetched for a user.
EndpointsOf(g, userId) == {sub \in pass[g].subscriptions : sub.user_id = userId}

C13_DeliveriesCounted ==
    \A g \in Passes :
        (pass[g].pc = "done" /\ pass[g].subscriptions # {}) =>
            /\ pass[g].attempted =
                  {sub \in pass[g].subscriptions :
                      MeetsOwnThreshold(
                          PreferenceOf(g, sub.user_id).last_notified_volume,
                          pass[g].currentVolume,
                          PreferenceOf(g, sub.user_id).percentage_threshold)}
            /\ Cardinality(pass[g].outcomes) = Cardinality(pass[g].attempted)
            /\ pass[g].result.value.sent
                 = Cardinality({o \in pass[g].outcomes : o.outcome = "ok"})
            /\ pass[g].result.value.failed
                 = Cardinality({o \in pass[g].outcomes : o.outcome # "ok"})
            /\ pass[g].result.value.sent + pass[g].result.value.failed
                 = Cardinality(pass[g].attempted)

\* The deliveries that settle in a step.
Settling(g) == pass'[g].outcomes \ pass[g].outcomes

\* C14: a delivery that ends with 410 removes the row of exactly that endpoint
\* (the row stays when the delete itself fails) and no other row; a delivery
\* that ends otherwise, and every other step of a pass, leaves the endpoint
\* table as it is; and the preference table changes in nothing but the
\* last_notified_volume of subscribers the pass notified.
C14_OnlyGoneEndpointsAreRemoved ==
    [][ /\ \A g \in Passes : \A o \in Settling(g) :
              push_subscriptions' =
                  IF o.outcome = "gone" /\ ~o.deleteError
                  THEN {sub \in push_subscriptions : sub.endpoint # o.endpoint}
                  ELSE push_subscriptions
        /\ (\A g \in Passes : Settling(g) = {}) =>
              push_subscriptions' = push_subscriptions
        /\ {[user_id |-> r.user_id, project_id |-> r.project_id,
             percentage_threshold |-> r.percentage_threshold,
             enabled |-> r.enabled] : r \in user_notification_preferences'}
             = {[user_id |-> r.user_id, project_id |-> r.project_id,
                 percentage_threshold |-> r.percentage_threshold,
                 enabled |-> r.enabled] : r \in user_notification_preferences}
        /\ \A r \in user_notification_preferences' :
              \/ r \in user_notification_preferences
              \/ \E g \in Passes :
                    /\ Notified(g, r.user_id)
                    /\ r.last_notified_volume = pass[g].currentVolume
      ]_vars

\* C14's case: of a subscriber's two endpoints one ended with 410 and its row
\* is gone, the other failed otherwise and its row is still there.
C14_Witness ==
    \E g \in Passes : \E o1, o2 \in pass[g].outcomes :
        /\ o1.user_id = o2.user_id
        /\ o1.outcome = "gone"
        /\ ~o1.deleteError
        /\ o2.outcome = "error"
        /\ \A sub \in push_subscriptions : sub.endpoint # o1.endpoint
        /\ \E sub \in push_subscriptions : sub.endpoint = o2.endpoint

Zeros == [sent |-> 0, failed |-> 0, skipped |-> 0]

\* C15: a pass whose preference fetch or endpoint fetch failed returns
\* {sent: 0, failed: 0, skipped: 0} (it does not throw), has attempted no
\* delivery and issued no update, and the step in which the fetch failed
\* changes neither table; a pass called afterwards starts with no locals of
\* the failed one and fetches again.
C15_FailedFetchAbandonsPass ==
    /\ [](\A g \in Passes :
            /\ (pass[g].fetchFailed /\ pass[g].result # Pending) =>
                  /\ pass[g].pc = "done"
                  /\ pass[g].result = Returned(Zeros)
            /\ pass[g].fetchFailed =>
                  /\ pass[g].attempted = {}
                  /\ pass[g].outcomes = {}
                  /\ pass[g].updatePromises = {}
                  /\ \A u \in UserIds : pass[g].updates[u] = 0
            /\ pass[g].pc = "fetchPreferences" =>
                  /\ pass[g].preferences = {}
                  /\ pass[g].subscriptions = {}
                  /\ ~pass[g].fetchFailed)
    /\ [][\A g \in Passes :
            (pass'[g].fetchFailed /\ ~pass[g].fetchFailed) =>
                /\ pass[g].pc \in {"fetchPreferences", "fetchSubscriptions"}
                /\ user_notification_preferences' = user_notification_preferences
                /\ push_subscriptions' = push_subscriptions
       ]_vars

\* C15's case: the endpoint fetch of one pass failed and left the stored
\* volume at 0; the next pass for the project fetched again and notified.
C15_Witness ==
    \E g, h \in Passes :
        /\ g < h
        /\ pass[g].fetchFailed
        /\ pass[h].pc = "done"
        /\ ~pass[h].fetchFailed
        /\ \E u \in EvaluatedUsers(h) :
              /\ PreferenceOf(h, u).last_notified_volume = 0
              /\ Notified(h, u)
              /\ StoredVolume(h, u) = pass[h].currentVolume

\* Task t is inside acquireLock.
Acquiring(t) ==
    pc[t] \in {"ensureDir", "waiting", "checkLockFile", "stat", "unlinkStale",
               "create"}

\* The lock file has no living holder: its creator died.
Abandoned ==
    /\ lockFile.exists
    /\ \A u \in Tasks :
          pc[u] \notin {"load", "openTmp", "writeTmp", "rename", "release",
                        "unlinkLock"}

\* C16: an acquirer that faces an abandoned lock file older than 30 s
\* eventually gets the lock and completes its operation (unless its own
\* process dies); an acquirer deletes a lock file only when the file is older
\* than 30 s at that moment, and on finding a younger one it leaves the file,
\* frees the gate and starts acquireLock again.
C16_StaleLockIsRecovered ==
    /\ \A t \in Tasks :
          (Acquiring(t) /\ Abandoned /\ now - lockFile.mtime > 30000)
              ~> (pc[t] \in {"done", "crashed"})
    /\ [][\A t \in Tasks :
            /\ (pc[t] = "unlinkStale" /\ pc'[t] # pc[t] /\ lockFile.exists) =>
                  now - lockFile.mtime > 30000
            /\ (pc[t] = "stat" /\ pc'[t] \notin {pc[t], "crashed"}
                   /\ lockFile.exists /\ now - lockFile.mtime <= 30000) =>
                  /\ pc'[t] = "ensureDir"
                  /\ lockFile' = lockFile
       ]_vars

\* C16's case: the process died inside saveData, holding the lock; the file
\* grew older than 30 s, and a call of the restarted process has removed it
\* and holds a lock file of its own.
C16_Witness ==
    /\ crashes = 1
    /\ \E t, u \in Tasks :
          /\ pc[t] = "crashed"
          /\ tmpFile.state = "partial"
          /\ tmpFile.w = t
          /\ pc[u] = "load"
          /\ lockFile.exists
          /\ lockFile.mtime = entered[u]
          /\ entered[u] - entered[t] > 30000

(***************************************************************************)
(* C17: lock acquisition retries a bounded number of times.                *)
(***************************************************************************)

PastLoad(t) == pc[t] \in {"openTmp", "writeTmp", "rename", "release",
                          "unlinkLock", "done"}

\* Call t leaves loadData in this step.
Loads(t) == pc[t] = "load" /\ pc'[t] # "load"

\* C18: an operation that loads while the snapshot file is absent computes
\* what it computes on the empty store and does not fail in loadData.  While
\* the snapshot file is unreadable or unparsable, every operation that loads
\* it ends with the error thrown to its caller and never reaches saveData,
\* and no step changes the snapshot file or creates a temporary file: the
\* file is never replaced by an empty or any other store.
C18_UnreadableSnapshotIsFatal ==
    /\ [][\A t \in Tasks :
            (Loads(t) /\ dataFile.state = "absent") =>
                /\ loaded'[t] = EmptyMap
                /\ out'[t] = body(op[t], EmptyMap, now).data
                /\ result'[t] # Threw
                /\ ~body(op[t], EmptyMap, now).save =>
                       result'[t] = Returned(body(op[t], EmptyMap, now).value)
       ]_vars
    /\ [][\A t \in Tasks :
            (Loads(t) /\ dataFile = CorruptFile) =>
                /\ result'[t] = Threw
                /\ pc'[t] = "release"
       ]_vars
    /\ [][dataFile = CorruptFile =>
            /\ dataFile' = CorruptFile
            /\ tmpFile' = tmpFile
       ]_vars
    /\ [](dataFile = CorruptFile =>
            /\ tmpFile = AbsentFile
            /\ written = {}
            /\ \A t \in Tasks : PastLoad(t) =>
                   /\ result[t] = Threw
                   /\ pc[t] \notin {"openTmp", "writeTmp", "rename"})

\* C18's cases: on an unparsable snapshot a recordWalletInteraction has failed
\* and returned the lock, and a second one has failed after it; on an absent
\* snapshot the first recordWalletInteraction has returned a first wallet.
C18_Witness ==
    /\ dataFile = CorruptFile
    /\ pc[1] = "done" /\ op[1].kind = "record" /\ result[1] = Threw
    /\ pc[2] = "done" /\ op[2].kind = "record" /\ result[2] = Threw
    /\ ~lockFile.exists

C18_WitnessAbsent ==
    /\ dataFile.state = "ok"
    /\ Len(hist) = 1
    /\ result[hist[1]] = Returned([isNewWallet |-> TRUE, uniqueWallets |-> 1,
                                   totalTransactions |-> 1])

(***************************************************************************)
(* C19: failed subscriptions are retried by the discovery ticks.           *)
(***************************************************************************)

\* Run r is inside subscribeToProjectEvents for project p.
Attempting(r, p) == run[r].cur = p /\ run[r].pc \in {"sdk", "subscribing"}

\* The subscription run r was attempting fails in this step.
AttemptFails(r) ==
    /\ run[r].pc \in {"sdk", "subscribing"}
    /\ run'[r].pc \notin {"sdk", "subscribing", "resolved"}

Range(s) == {s[i] : i \in DOMAIN s}

\* C19: when a subscription attempt fails, at startup or in a discovery
\* tick, the subscribed set is left as it is and the run goes on with the
\* rest of its list; startup is ended early by nothing but a failure to fetch
\* the project list.  A discovery tick that has fetched the project list goes
\* through every project that is not in the subscribed set and attempts each
\* one that is still not in it when its turn comes, so a project whose
\* subscription failed is attempted again by every such tick until it is in
\* the set; no attempt is started for a project that is in the set.
C19_FailedSubscriptionIsRetried ==
    /\ [][\A r \in Runs :
            /\ AttemptFails(r) =>
                  /\ subscribedProjectIds' = subscribedProjectIds
                  /\ run'[r].pc = "loop"
                  /\ run'[r].todo = Tail(run[r].todo)
            /\ (run'[0].pc = "aborted") => (run[0].pc \in {"fetch", "aborted"})
            /\ (r # 0 /\ run[r].pc = "fetch" /\ run'[r].pc = "loop") =>
                  Range(run'[r].todo) = ProjectIds \ subscribedProjectIds
            /\ (run[r].pc = "loop" /\ run'[r] # run[r] /\ run[r].todo # <<>>
                   /\ Head(run[r].todo) \notin subscribedProjectIds) =>
                  Attempting(r, Head(run[r].todo))'
            /\ (run[r].pc # "sdk" /\ run'[r].pc = "sdk") =>
                  run'[r].cur \notin subscribedProjectIds
            /\ (run[r].pc # "subscribing" /\ run'[r].pc = "subscribing") =>
                  run'[r].cur \notin subscribedProjectIds
       ]_vars
    /\ \A r \in Runs, p \in ProjectIds :
          (run[r].pc = "loop" /\ p \in Range(run[r].todo))
              ~> (p \in subscribedProjectIds \/ Attempting(r, p))
    /\ (run[0].pc = "loop") ~> (run[0].pc = "initialized")

\* C19's case: the subscription of p1 failed at startup although p1 has
\* events, startup went on to subscribe p2 and finished, and a discovery tick
\* has attempted p1 again, this time with success.
C19_Witness ==
    /\ run[0].pc = "initialized"
    /\ projectsTable["p1"].hasEvents
    /\ "p1" \notin subscribedProjectIds
    /\ "p2" \in subscribedProjectIds
    /\ \E r \in Runs \ {0} : run[r].pc = "resolved" /\ run[r].cur = "p1"

(***************************************************************************)
(* C20: the event handler records once, then calls the gate once.          *)
(***************************************************************************)

\* The interaction recorded by handler h is in the snapshot file.
Recorded(h) ==
    /\ dataFile.state = "ok"
    /\ op[h].projectId \in DOMAIN dataFile.json
    /\ toLowerCase(op[h].walletAddress)
          \in DOMAIN dataFile.json[op[h].projectId].wallets

\* C20: a handler calls recordWalletInteraction once.  When that call has
\* returned, and only then, the handler calls the gate, once, for the event's
\* project and with the uniqueWallets value the call returned, for a new
\* wallet and for a known one alike; a handler does not finish without
\* having done so.  When the gate call fails the handler still returns
\* normally, and no step of the gate changes the snapshot file: the recorded
\* interaction stays.  (When recordWalletInteraction itself fails the handler
\* fails and the gate is not called.)
C20_RecordThenGateOnce ==
    /\ [](\A h \in Handlers :
            /\ handler[h].recordCalls <= 1
            /\ handler[h].gateCalls <= 1
            /\ handler[h].pc # "idle" => handler[h].recordCalls = 1
            /\ handler[h].pc = "recording" =>
                  handler[h].gateCalls = 0 /\ pass[h].pc = "idle"
            /\ handler[h].pc \in {"gating", "done"} =>
                  /\ pc[h] = "done"
                  /\ result[h].status = "ok"
                  /\ handler[h].gateCalls = 1
                  /\ pass[h].pc # "idle"
                  /\ pass[h].projectId = op[h].projectId
                  /\ pass[h].currentVolume = result[h].value.uniqueWallets
                  /\ Recorded(h)
            /\ handler[h].pc = "done" => pass[h].pc = "done"
            /\ handler[h].pc = "threw" =>
                  /\ result[h] = Threw
                  /\ handler[h].gateCalls = 0
                  /\ pass[h].pc = "idle")
    /\ [][\A h \in Handlers :
            (pass'[h] # pass[h] /\ pass[h].pc # "idle") =>
                dataFile' = dataFile
       ]_vars

\* C20's case: the second event of a wallet that was already recorded; the
\* gate was called with the unchanged count 1 and failed, and the handler
\* has returned normally with the interaction on disk.
C20_Witness ==
    /\ handler[2].pc = "done"
    /\ result[2].status = "ok"
    /\ ~result[2].value.isNewWallet
    /\ pass[2].currentVolume = 1
    /\ pass[2].result = Threw
    /\ Recorded(2)
    /\ dataFile.json["p1"].total_transactions = 2

(***************************************************************************)
(* C21: event handling and the remote datastore.                           *)
(***************************************************************************)

\* Handler h is suspended at an await that resumes only when a call to the
\* remote datastore returns: the preference query, the endpoint query, or
\* the updates of last_notified_volume gathered by Promise.allSettled.
WaitsOnDatastore(h) ==
    /\ handler[h].pc = "gating"
    /\ \/ pass[h].pc \in {"fetchPreferences", "fetchSubscriptions"}
       \/ /\ pass[h].pc = "loop"
          /\ pass[h].todo = {}
          /\ pass[h].updatePromises # {}

\* C21: the handling of an event is never suspended waiting for a call to
\* the remote datastore to return.
C21_NeverWaitsOnDatastore ==
    \A h \in Handlers : ~WaitsOnDatastore(h)

(***************************************************************************)
(* C22: ranking recomputation is debounced.                                *)
(***************************************************************************)

\* C22: requests to recompute the rankings that fall within one window of
\* 5 s are served by a single execution of recalculateRankings: no two
\* executions start less than 5 s apart.
C22_RankingIsDebounced ==
    \A i, j \in DOMAIN recalcs :
        i < j => recalcs[j].at - recalcs[i].at >= DebounceMs

(***************************************************************************)
(* C23: shutdown.                                                          *)
(***************************************************************************)

\* C23: once the process has exited on a signal, no lock file that it
\* created is left, and the snapshot file is not half written.
C23_ShutdownReleasesLock ==
    run[0].pc = "exited" =>
        /\ ~(lockFile.exists /\ lockFile.pid = 1)
        /\ dataFile.state # "partial"

(***************************************************************************)
(* C24: what cleanupOldWallets returns.                                    *)
(***************************************************************************)

\* The number of entries of project p of `data` that are older than the
\* retention window at time nowMs.
OldIn(data, p, nowMs) ==
    Cardinality(DOMAIN data[p].wallets)
        - Cardinality(Kept(data[p].wallets, nowMs))

RECURSIVE OldOver(_, _, _)
OldOver(data, ps, nowMs) ==
    IF ps = {} THEN 0
    ELSE LET p == CHOOSE q \in ps : TRUE
         IN  OldIn(data, p, nowMs) + OldOver(data, ps \ {p}, nowMs)

\* C24: a cleanupOldWallets that returns lists exactly the projects that had
\* an entry older than the window, once each, with the number of entries the
\* project keeps and with total_transactions and last_interaction_at as they
\* were loaded; totalRemoved is the number of old entries over all projects
\* and projectsCleaned the number of projects listed.
C24_CleanupReport ==
    \A t \in Tasks :
        (op[t].kind = "cleanup" /\ result[t].status = "ok") =>
            LET before == loaded[t]
                v == result[t].value
                cleaned == {p \in DOMAIN before : OldIn(before, p, at[t]) > 0}
            IN  /\ {u.projectId : u \in v.updates} = cleaned
                /\ Cardinality(v.updates) = Cardinality(cleaned)
                /\ \A u \in v.updates :
                      /\ u.uniqueWallets =
                            Cardinality(Kept(before[u.projectId].wallets, at[t]))
                      /\ u.totalTransactions =
                            before[u.projectId].total_transactions
                      /\ u.lastInteractionAt =
                            before[u.projectId].last_interaction_at
                /\ v.totalRemoved = OldOver(before, DOMAIN before, at[t])
                /\ v.projectsCleaned = Cardinality(cleaned)

\* C24's case: a store with two projects, one with an old entry and one with
\* a fresh entry only; cleanup has returned a report that lists the first
\* project alone.
C24_Witness ==
    \E t \in Tasks :
        /\ op[t].kind = "cleanup"
        /\ result[t].status = "ok"
        /\ DOMAIN loaded[t] = {"p1", "p2"}
        /\ OldIn(loaded[t], "p1", at[t]) = 1
        /\ OldIn(loaded[t], "p2", at[t]) = 0
        /\ Count(loaded[t], "p2") = 1
        /\ result[t].value.totalRemoved = 1
        /\ result[t].value.projectsCleaned = 1

(***************************************************************************)
(* C25: subscribers without endpoints.                                     *)
(***************************************************************************)

\* C25: in a pass that has returned and whose fetches did not fail, an
\* enabled subscriber of the project that has no endpoint is evaluated like
\* the others: below its threshold it is counted in skipped, and at or above
\* it its lastNotifiedVolume is written once with currentVolume.
C25_SubscribersWithoutEndpointsAreEvaluated ==
    \A g \in Passes :
        (pass[g].pc = "done" /\ ~pass[g].fetchFailed) =>
            \A r \in pass[g].preferences :
                EndpointsOf(g, r.user_id) = {} =>
                    IF MeetsOwnThreshold(r.last_notified_volume,
                                         pass[g].currentVolume,
                                         r.percentage_threshold)
                    THEN /\ pass[g].updates[r.user_id] = 1
                         /\ StoredVolume(g, r.user_id) = pass[g].currentVolume
                    ELSE /\ r.user_id \in pass[g].skippedUsers
                         /\ pass[g].result.value.skipped
                              = Cardinality(pass[g].skippedUsers)

(***************************************************************************)
(* C26: what a store operation acquired is released on every exit path.    *)
(***************************************************************************)

\* The calls process p has made have all returned or thrown.
Quiet(p) == \A t \in Tasks : proc[t] = p => pc[t] = "done"

\* C26: once every store operation of a process has returned or thrown
\* (its body succeeded, its body threw, or the creation of the lock file
\* failed with an error other than EEXIST), the in-process gate of that
\* process is free and no lock file of its own is left on disk, so that a
\* later operation can acquire.
C26_EveryExitPathReleases ==
    \A p \in cfg.procs :
        Quiet(p) => /\ ~fileLock[p]
                    /\ ~(lockFile.exists /\ lockFile.pid = p)

(***************************************************************************)
(* C27: which lock files a process deletes.                                *)
(***************************************************************************)

\* Task t removes the lock file in this step, by the unlink of releaseFileLock
\* or by the unlink of the stale branch of acquireLock.
DeletesLockFile(t) ==
    /\ pc[t] \in {"unlinkLock", "unlinkStale"}
    /\ pc'[t] # pc[t]
    /\ lockFile.exists
    /\ ~lockFile'.exists

\* C27: a lock file that a process deletes is one that process created, or
\* one that is older than the staleness threshold at the moment of deletion:
\* a fresh lock held by another process is never deleted.
C27_DeletesOnlyOwnOrStaleLock ==
    [][\A t \in Tasks :
          DeletesLockFile(t) =>
              \/ lockFile.pid = proc[t]
              \/ now - lockFile.mtime > StaleLockMs]_vars

(***************************************************************************)
(* C28: one event subscription per project.                                *)
(***************************************************************************)

\* C28: a project never has more than one active event subscription, also
\* when a discovery tick fires while an earlier checkForNewProjects is still
\* awaiting subscribeToProject for the same project.
C28_OneSubscriptionPerProject ==
    \A p \in ProjectIds : streams[p] <= 1

(***************************************************************************)
(* C29: overlapping notification passes.                                   *)
(***************************************************************************)

\* Pass g has delivered a notification to an endpoint of the subscriber.
Delivered(g, userId) ==
    \E o \in pass[g].outcomes : o.user_id = userId /\ o.outcome = "ok"

\* C29: two passes that are in progress at the same time never both notify
\* the same subscriber against the same stored baseline: of two passes that
\* evaluated a subscriber from the same lastNotifiedVolume, at most one has
\* delivered a notification to that subscriber.
C29_OneNotificationPerBaseline ==
    \A g, h \in Passes :
        g # h =>
            \A u \in UserIds :
                ~ /\ Delivered(g, u)
                  /\ Delivered(h, u)
                  /\ PreferenceOf(g, u).last_notified_volume
                       = PreferenceOf(h, u).last_notified_volume

(***************************************************************************)
(* C30: preference rows.                                                   *)
(***************************************************************************)

\* The table holds at most one row for every user and project.
OneRowPerKey ==
    \A r1, r2 \in user_notification_preferences :
        (r1.user_id = r2.user_id /\ r1.project_id = r2.project_id) => r1 = r2

\* What a save that returns a row in this step has done to the table.
SaveEffect(c) ==
    LET a == prefCall[c]
        mine == {r \in user_notification_preferences :
                    r.user_id = a.userId /\ r.project_id = a.projectId}
        mine2 == {r \in user_notification_preferences' :
                     r.user_id = a.userId /\ r.project_id = a.projectId}
        others == user_notification_preferences \ mine
        others2 == user_notification_preferences' \ mine2
    IN  (/\ a.kind = "set"
         /\ a.pc # "done"
         /\ prefCall'[c].pc = "done"
         /\ prefCall'[c].result # Threw) =>
            /\ others2 = others
            /\ Cardinality(mine2) = 1
            /\ \A r \in mine2 :
                  /\ r.percentage_threshold = a.percentageThreshold
                  /\ r.enabled = a.enabled
                  /\ IF mine = {}
                     THEN r.last_notified_volume = 0
                     ELSE \A old \in mine :
                             r.last_notified_volume = old.last_notified_volume

\* C30: after any sequence of setUserPreference and deleteUserPreference the
\* table holds at most one row per (userId, projectId); a save that finds no
\* row creates one with lastNotifiedVolume 0; a save on an existing row
\* writes threshold and enabled into that row and leaves its
\* lastNotifiedVolume as it was; no other row is touched.
C30_OneRowPerUserAndProject ==
    /\ []OneRowPerKey
    /\ [][\A c \in PrefCalls : SaveEffect(c)]_vars

\* A save has changed the threshold of a row whose lastNotifiedVolume was
\* 100, and the row still holds 100.
C30_Witness ==
    \E c \in PrefCalls :
        /\ prefCall[c].pc = "done"
        /\ prefCall[c].kind = "set"
        /\ prefCall[c].result # Threw
        /\ \E old \in prefCall[c].existing :
              /\ old.last_notified_volume = 100
              /\ old.percentage_threshold # prefCall[c].percentageThreshold
        /\ \E r \in user_notification_preferences :
              /\ r.user_id = prefCall[c].userId
              /\ r.percentage_threshold = prefCall[c].percentageThreshold
              /\ r.last_notified_volume = 100

====
